---- MODULE Spec2Model ----
(***************************************************************************)
(* A model of the Jira analytics service of dashboard-hm-sp                *)
(* (class JiraService, src/unnamed/part_000 lines 334-1536).               *)
(*                                                                         *)
(* The module holds several specifications over one set of variables:      *)
(*   Spec       the service on the event loop: overlapping                 *)
(*              getSupportIssues requests, the two tenants' pipelines and  *)
(*              the shared trend cache                                     *)
(*   SpecCount  one getCountWithPagination call against the pages the      *)
(*              tracker serves for its query                               *)
(*   SpecOpen   the open-issue count of getProductSupportData              *)
(*   SpecTrend  one get8WeeksTrendData call                                *)
(*   SpecBH     calculateBusinessHours applied to a pair of instants       *)
(*   SpecAnalyze  the three analyzers of the resolved issues               *)
(*   SpecMetrics  calculateMetrics applied to a display batch              *)
(*   SpecAssemble  the result getProductSupportData assembles              *)
(*   SpecSla    one getSlaStatusForType call                               *)
(*   SpecPipe   the upstream calls of one getProductSupportData call, in   *)
(*              the order they are sent; SpecPipeFair adds the fairness of *)
(*              the replies                                                *)
(* Each specification leaves the variables of the others at their idle     *)
(* values.                                                                 *)
(***************************************************************************)
EXTENDS Integers, Sequences, FiniteSets, TLC

(***************************************************************************)
(* Bounds of the model                                                     *)
(***************************************************************************)
\* getSupportIssues requests in one behaviour; they may overlap in time
MaxReq == 2
\* calendar dates are 0..MaxDay
MaxDay == 1
\* SpecCount: pages served for one query, issues on a page, distinct keys
MaxPages == 2
MaxPageLen == 2
MaxKey == 2
\* SpecOpen: issues matching the open filter; maxResults of a page, standing
\* for the 100 of lines 421 and 441
MaxIssues == 4
PageLimit == 2
\* SpecTrend: issues the tracker reports as created or resolved over all
\* buckets together, and the largest live open count
MaxTrendEvents == 2
MaxOpen == 2
\* SpecBH: instants lie on the days 0..MaxBHDay, day 0 a Monday
MaxBHDay == 8
\* SpecAnalyze: length of the list of resolved issues
MaxAnalyzed == 3
\* SpecMetrics: length of the display batch
MaxBatch == 5
\* SpecAssemble: length of the list of resolved issues
MaxResolved == 2
\* SpecPipe: continuation tokens are 1..MaxToken (0 stands for none); the
\* buckets get8WeeksTrendData counts (7 days and 8 weeks at most)
MaxToken == 1
MaxTrendBuckets == 1
\* SpecSla: issues in the reply to the SLA query
MaxSlaIssues == 3

VARIABLES
  creds,       \* creds[t]: config of tenant t has baseUrl, email and apiToken
  today,       \* the calendar date a `new Date()` observes now
  trendCache,  \* this.trendCache: [data, lastUpdated]
  reqpc,       \* reqpc[r]: position of getSupportIssues request r
  pc,          \* pc[r][t]: position of getProductSupportData(t) of request r
  obs,         \* obs[r][t]: `today` of the pending getCachedTrendData call
  res,         \* res[r][t]: value getProductSupportData(t) resolved with
  lastResp,    \* the value the latest getSupportIssues to return resolved with
  nSeries,     \* nSeries[t]: series objects get8WeeksTrendData returned for t
  invokedOn,   \* invokedOn[t]: dates on which get8WeeksTrendData ran for t
  fetchedOn,   \* fetchedOn[t]: date observed by the call that fetched data[t]
  staleSeen    \* staleSeen[t]: since data[t] was stored, a call for t saw a
               \*   date other than fetchedOn[t]

svcVars == <<creds, today, trendCache, reqpc, pc, obs, res, lastResp, nSeries,
             invokedOn, fetchedOn, staleSeen>>

VARIABLES
  cPages,      \* the pages the tracker serves for the query, in order; a page
               \*   is the sequence of its issues' keys, 0 an issue without key
  cPc,         \* position of getCountWithPagination
  cNext,       \* nextToken: the number of pages served, 0 when there is none
  cKeys,       \* the Set `keys`
  cResult,     \* the value returned
  cFailed      \* a page fetch failed (the value comes from the catch)

countVars == <<cPages, cPc, cNext, cKeys, cResult, cFailed>>

VARIABLES
  oN,          \* the issues matching the open filter are 1..oN, in the order
               \*   they were created
  oOrder,      \* the order in which the tracker lists them for the query
               \*   that has no ORDER BY
  oPc,         \* position in lines 399-455 of getProductSupportData
  oToken,      \* nextPageToken: issues of the listing served, 0 for none
  oBatch,      \* `issues`: the display batch
  oKeys,       \* the Set issueKeys
  oTotal,      \* totalOpenIssues
  oMock        \* the catch of getProductSupportData was taken

openVars == <<oN, oOrder, oPc, oToken, oBatch, oKeys, oTotal, oMock>>

VARIABLES
  tDow,          \* today.getDay(): 0 Sunday .. 6 Saturday
  tPc,           \* position of get8WeeksTrendData
  tI,            \* the loop variable (day, weekOffset)
  tCurrentWeek,  \* currentWeek
  tWeeks,        \* weeks
  tLive,         \* the live open count (line 949)
  tLeft,         \* created/resolved events the tracker may still report
  tZone,         \* hours the clock of the process is ahead of UTC
  tFailed,       \* an upstream call of this build has failed
  tOpenCalls     \* calls made for the live open count

trendVars ==
  <<tDow, tPc, tI, tCurrentWeek, tWeeks, tLive, tLeft, tZone, tFailed,
    tOpenCalls>>

VARIABLES
  bhStart,     \* startDate
  bhEnd,       \* endDate
  bhPc,        \* "called" or "returned"
  bhResult     \* the value returned

bhVars == <<bhStart, bhEnd, bhPc, bhResult>>

VARIABLES
  aWhich,      \* the analyzer called: "ttfr", "sla" or "lifetime"
  aIssues,     \* resolvedIssues
  aPc,         \* "called" or "returned"
  aResult      \* the value returned

analyzeVars == <<aWhich, aIssues, aPc, aResult>>

VARIABLES
  mIssues,     \* issues: the display batch
  mCounts,     \* totalOpenIssues, closedToday, newToday
  mPc,         \* "called" or "returned"
  mResult      \* the value returned

metricsVars == <<mIssues, mCounts, mPc, mResult>>

VARIABLES
  gProduct,    \* productName
  gIssues,     \* resolvedIssues
  gPc,         \* "analyze" or "returned"
  gResult      \* the value returned

assembleVars == <<gProduct, gIssues, gPc, gResult>>

VARIABLES
  pTenant,     \* productName
  pPc,         \* the await getProductSupportData is suspended at
  pLast,       \* the query of the call in flight: <<filter, token>>
  pTick,       \* parity of the number of calls sent
  pCountToken, \* countResponse.data.nextPageToken (line 433)
  pTrendI,     \* the getCountWithPagination call get8WeeksTrendData is in
  pFailed,     \* the queries whose call has failed
  pDone,       \* the steps whose upstream calls have all been answered
  pPaged,      \* a pagination loop has sent a call for a further page
  pResult      \* the value getProductSupportData resolved with

pipeVars ==
  <<pTenant, pPc, pLast, pTick, pCountToken, pTrendI, pFailed, pDone, pPaged,
    pResult>>

VARIABLES
  sHours,      \* slaHours
  sIssues,     \* issues: the issues of the reply
  sPc,         \* "called" or "returned"
  sResult      \* the value returned

slaVars == <<sHours, sIssues, sPc, sResult>>

vars ==
  <<slaVars, pipeVars, svcVars, countVars, openVars, trendVars, bhVars, analyzeVars, metricsVars,
    assembleVars>>

\* what the actions of one specification leave alone
notSvc == <<slaVars, pipeVars, assembleVars, metricsVars, analyzeVars, countVars, openVars, trendVars, bhVars>>
notCount == <<slaVars, pipeVars, assembleVars, metricsVars, analyzeVars, svcVars, openVars, trendVars, bhVars>>
notOpen == <<slaVars, pipeVars, assembleVars, metricsVars, analyzeVars, svcVars, countVars, trendVars, bhVars>>
notTrend == <<slaVars, pipeVars, assembleVars, metricsVars, analyzeVars, svcVars, countVars, openVars, bhVars>>
notBH == <<slaVars, pipeVars, assembleVars, metricsVars, analyzeVars, svcVars, countVars, openVars, trendVars>>
notAnalyze == <<slaVars, pipeVars, assembleVars, metricsVars, svcVars, countVars, openVars, trendVars, bhVars>>
notMetrics ==
  <<slaVars, pipeVars, assembleVars, svcVars, countVars, openVars, trendVars, bhVars, analyzeVars>>
notAssemble ==
  <<slaVars, pipeVars, svcVars, countVars, openVars, trendVars, bhVars, analyzeVars, metricsVars>>
notSla ==
  <<pipeVars, svcVars, countVars, openVars, trendVars, bhVars, analyzeVars,
    metricsVars, assembleVars>>
notPipe ==
  <<slaVars, svcVars, countVars, openVars, trendVars, bhVars, analyzeVars, metricsVars,
    assembleVars>>

(***************************************************************************)
(* Tenants, configuration, values                                          *)
(***************************************************************************)
Tenants == {"HallMonitor", "SwitchPay"}
Requests == 1..MaxReq
Days == 0..MaxDay

\* the outcome of one awaited axios.post
Outcomes == {"ok", "timeout", "http_error", "bad_body"}

NoSeries == [id |-> 0, mock |-> FALSE, weeks |-> 0, currentWeek |-> 0]
NoDate == -1

\* getMock8WeeksTrendData: a new object with 8 weeks and 5 days
getMock8WeeksTrendData == [id |-> 0, mock |-> TRUE, weeks |-> 8, currentWeek |-> 5]

generateMockTrendData(isHallMonitor) == getMock8WeeksTrendData

\* a mock object without the trend series
MockDataWithoutTrend(productName) ==
  [mock |-> TRUE, openIssues |-> 42, newToday |-> 6, closedToday |-> 11,
   criticalP1 |-> 3, topIssues |-> 4,
   timeToFirstResponse |-> "2t 15m", timeToFirstResponseChange |-> -12]

getSingleProductMockData(productName) ==
  IF productName = "HallMonitor"
  THEN [mock |-> TRUE, openIssues |-> 42, newToday |-> 6, closedToday |-> 11,
        criticalP1 |-> 3, topIssues |-> 4,
        trendData |-> generateMockTrendData(TRUE),
        timeToFirstResponse |-> "2t 15m", timeToFirstResponseChange |-> -12,
        slaCompliance |-> 94]
  ELSE [mock |-> TRUE, openIssues |-> 18, newToday |-> 3, closedToday |-> 7,
        criticalP1 |-> 1, topIssues |-> 4,
        trendData |-> generateMockTrendData(FALSE),
        timeToFirstResponse |-> "1t 45m", timeToFirstResponseChange |-> -8,
        averageLifetime |-> "1d 3t", averageLifetimeChange |-> -15]

\* the object assembled at lines 564-572 from upstream data
LiveData(productName, trendData) ==
  [mock |-> FALSE, openIssues |-> "live", newToday |-> "live",
   closedToday |-> "live", criticalP1 |-> "live", topIssues |-> "live",
   trendData |-> trendData,
   timeToFirstResponse |-> "live", timeToFirstResponseChange |-> "live",
   slaCompliance |-> IF productName = "HallMonitor" THEN "live" ELSE "null",
   averageLifetime |-> IF productName = "SwitchPay" THEN "live" ELSE "null",
   averageLifetimeChange |-> IF productName = "SwitchPay" THEN "live" ELSE "null"]

NoRes == [none |-> TRUE]

(***************************************************************************)
(* Spec: the service on the event loop                                     *)
(***************************************************************************)
\* constructor (lines 335-361) and the state before any request
SvcInit ==
  /\ creds \in [Tenants -> BOOLEAN]
  /\ today = 0
  /\ trendCache = [data |-> [t \in Tenants |-> NoSeries], lastUpdated |-> NoDate]
  /\ reqpc = [r \in Requests |-> "idle"]
  /\ pc = [r \in Requests |-> [t \in Tenants |-> "idle"]]
  /\ obs = [r \in Requests |-> [t \in Tenants |-> NoDate]]
  /\ res = [r \in Requests |-> [t \in Tenants |-> NoRes]]
  /\ lastResp = NoRes
  /\ nSeries = [t \in Tenants |-> 0]
  /\ invokedOn = [t \in Tenants |-> {}]
  /\ fetchedOn = [t \in Tenants |-> NoDate]
  /\ staleSeen = [t \in Tenants |-> FALSE]

\* the cache test of getCachedTrendData (line 1169)
CacheValid(t) ==
  trendCache.lastUpdated = today /\ trendCache.data[t] # NoSeries

\* the stored series of t was fetched on another date than today's
Stale(t) ==
  trendCache.data[t] # NoSeries /\ fetchedOn[t] # today

\* Promise.all and the return of getSupportIssues (lines 377-382).  The
\* continuations of a resolved promise run as microtasks, before the event
\* loop takes the next reply: when the second getProductSupportData of a
\* request resolves with `value`, the request returns in the same step.
Settle(r, t, value) ==
  LET vals == [u \in Tenants |-> IF u = t THEN value ELSE res[r][u]]
  IN IF \A u \in Tenants \ {t} : pc[r][u] = "done"
     THEN /\ lastResp' = [hallmonitor |-> vals["HallMonitor"],
                          switchpay |-> vals["SwitchPay"]]
          /\ reqpc' = [reqpc EXCEPT ![r] = "returned"]
          /\ pc' = [pc EXCEPT ![r] = [u \in Tenants |-> "idle"]]
          /\ res' = [res EXCEPT ![r] = [u \in Tenants |-> NoRes]]
     ELSE /\ pc' = [pc EXCEPT ![r][t] = "done"]
          /\ res' = [res EXCEPT ![r][t] = value]
          /\ UNCHANGED <<lastResp, reqpc>>

\* the test of line 394 with the credentials taken for present
HasCredentialsAlways(t) == TRUE

\* the test of line 394, negated: baseUrl, email and apiToken are all set
HasCredentials(t) == creds[t]

\* getSupportIssues is called (lines 375-380): both getProductSupportData
\* calls run to their first await; a tenant without credentials resolves
\* with its mock data at once (lines 394-397).  Requests are numbered in
\* the order they arrive.
getSupportIssues(r) ==
  /\ reqpc[r] = "idle"
  /\ \A q \in Requests : q < r => reqpc[q] # "idle"
  /\ IF \A t \in Tenants : ~HasCredentials(t)
     THEN /\ lastResp' = [hallmonitor |-> getSingleProductMockData("HallMonitor"),
                          switchpay |-> getSingleProductMockData("SwitchPay")]
          /\ reqpc' = [reqpc EXCEPT ![r] = "returned"]
          /\ UNCHANGED <<pc, res>>
     ELSE /\ reqpc' = [reqpc EXCEPT ![r] = "running"]
          /\ pc' = [pc EXCEPT ![r] = [t \in Tenants |->
                       IF HasCredentials(t) THEN "upstream" ELSE "done"]]
          /\ res' = [res EXCEPT ![r] = [t \in Tenants |->
                       IF HasCredentials(t) THEN NoRes ELSE getSingleProductMockData(t)]]
          /\ UNCHANGED lastResp
  /\ UNCHANGED <<creds, today, trendCache, obs, nSeries, invokedOn,
                 fetchedOn, staleSeen>>
  /\ UNCHANGED notSvc

\* the catch of lines 574-577 as if the failure rejected Promise.all: the
\* request returns mock data for both tenants (lines 382-388)
CatchRejectsRequest(r, t) ==
  /\ lastResp' = [hallmonitor |-> getSingleProductMockData("HallMonitor"),
                  switchpay |-> getSingleProductMockData("SwitchPay")]
  /\ reqpc' = [reqpc EXCEPT ![r] = "returned"]
  /\ pc' = [pc EXCEPT ![r] = [u \in Tenants |-> "idle"]]
  /\ res' = [res EXCEPT ![r] = [u \in Tenants |-> NoRes]]
  /\ UNCHANGED <<trendCache, obs, nSeries, invokedOn, fetchedOn, staleSeen>>

\* the catch of getProductSupportData (lines 574-577)
Catch(r, t) ==
  /\ Settle(r, t, getSingleProductMockData(t))
  /\ UNCHANGED <<trendCache, obs, nSeries, invokedOn, fetchedOn, staleSeen>>

\* getCachedTrendData up to its await (lines 1163-1174), entered from
\* line 558: a valid entry is returned, otherwise get8WeeksTrendData is
\* invoked and awaited
getCachedTrendData(r, t) ==
  /\ staleSeen' = [staleSeen EXCEPT ![t] = @ \/ Stale(t)]
  /\ IF CacheValid(t)
     THEN /\ Settle(r, t, LiveData(t, trendCache.data[t]))
          /\ UNCHANGED <<trendCache, obs, nSeries, invokedOn, fetchedOn>>
     ELSE /\ pc' = [pc EXCEPT ![r][t] = "trend"]
          /\ obs' = [obs EXCEPT ![r][t] = today]
          /\ invokedOn' = [invokedOn EXCEPT ![t] = @ \cup {today}]
          /\ UNCHANGED <<trendCache, res, nSeries, fetchedOn, lastResp, reqpc>>

\* the awaited upstream calls of getProductSupportData before the trend
\* lookup (lines 403-551) touch only locals, so one position stands for the
\* whole chain.  This step is the reply that ends it: the first reply that
\* fails (caught at line 574), or the last one after all succeeded, which
\* runs on into getCachedTrendData (line 558).
UpstreamReply(r, t) ==
  /\ pc[r][t] = "upstream"
  /\ \E o \in Outcomes :
       IF o = "ok" THEN getCachedTrendData(r, t) ELSE Catch(r, t)
  /\ UNCHANGED <<creds, today>>
  /\ UNCHANGED notSvc

\* get8WeeksTrendData resolves with a new series object (it never rejects,
\* lines 968-977) and getCachedTrendData stores and returns it (lines
\* 1176-1180); getProductSupportData assembles its result (lines 560-572)
TrendReply(r, t) ==
  /\ pc[r][t] = "trend"
  /\ LET trendData == [id |-> nSeries[t] + 1, mock |-> FALSE, weeks |-> 8,
                       currentWeek |-> 7]
     IN /\ trendCache' = [data |-> [trendCache.data EXCEPT ![t] = trendData],
                          lastUpdated |-> obs[r][t]]
        /\ Settle(r, t, LiveData(t, trendData))
  /\ nSeries' = [nSeries EXCEPT ![t] = @ + 1]
  /\ fetchedOn' = [fetchedOn EXCEPT ![t] = obs[r][t]]
  /\ staleSeen' = [staleSeen EXCEPT ![t] = FALSE]
  /\ obs' = [obs EXCEPT ![r][t] = NoDate]
  /\ UNCHANGED <<creds, today, invokedOn>>
  /\ UNCHANGED notSvc

\* the calendar date advances
Midnight ==
  /\ today < MaxDay
  /\ today' = today + 1
  /\ UNCHANGED <<creds, trendCache, reqpc, pc, obs, res, lastResp, nSeries,
                 invokedOn, fetchedOn, staleSeen>>
  /\ UNCHANGED notSvc

\* the service before any request, for the specifications of single calls
SvcIdle ==
  /\ creds = [t \in Tenants |-> TRUE]
  /\ today = 0
  /\ trendCache = [data |-> [t \in Tenants |-> NoSeries], lastUpdated |-> NoDate]
  /\ reqpc = [r \in Requests |-> "idle"]
  /\ pc = [r \in Requests |-> [t \in Tenants |-> "idle"]]
  /\ obs = [r \in Requests |-> [t \in Tenants |-> NoDate]]
  /\ res = [r \in Requests |-> [t \in Tenants |-> NoRes]]
  /\ lastResp = NoRes
  /\ nSeries = [t \in Tenants |-> 0]
  /\ invokedOn = [t \in Tenants |-> {}]
  /\ fetchedOn = [t \in Tenants |-> NoDate]
  /\ staleSeen = [t \in Tenants |-> FALSE]

(***************************************************************************)
(* SpecCount: getCountWithPagination (lines 839-865)                       *)
(***************************************************************************)
Range(f) == {f[i] : i \in DOMAIN f}

SeqsUpTo(S, n) == UNION {[1..k -> S] : k \in 0..n}

Keys == 0..MaxKey

\* a page: its issues' keys, listed in key order (the order within a page
\* has no effect on a Set)
PageSet == {p \in SeqsUpTo(Keys, MaxPageLen) :
              \A i \in 1..(Len(p) - 1) : p[i] <= p[i + 1]}

\* what the tracker may serve for a query: at least one page; every page but
\* the last carries a continuation token
PageSeqs == {ps \in SeqsUpTo(PageSet, MaxPages) : Len(ps) >= 1}

\* the scenarios of the specification: 3 disjoint pages of 100/100/42 keys,
\* and 2 pages of 100 keys of which the second repeats 10 of the first
Pages242 == <<[i \in 1..100 |-> i], [i \in 1..100 |-> 100 + i], [i \in 1..42 |-> 200 + i]>>
Pages190 == <<[i \in 1..100 |-> i], [i \in 1..100 |-> 90 + i]>>

CountIdle ==
  /\ cPages = <<>>
  /\ cPc = "idle"
  /\ cNext = 0
  /\ cKeys = {}
  /\ cResult = 0
  /\ cFailed = FALSE

\* the call is made and the first request sent (lines 841-845)
CountInit ==
  /\ cPages \in PageSeqs \cup {Pages242, Pages190}
  /\ cPc = "first"
  /\ cNext = 0
  /\ cKeys = {}
  /\ cResult = 0
  /\ cFailed = FALSE

\* issues.map(i => i.key).filter(Boolean), added to the Set (lines 847, 856)
AddKeysUnfiltered(keys, page) == keys \cup Range(page)

AddKeys(keys, page) == keys \cup {k \in Range(page) : k # 0}

\* response.data.nextPageToken of page number n
TokenAfter(n) == IF n < Len(cPages) THEN n ELSE 0

\* a page has been taken in: loop on, or return keys.size (lines 850, 860)
CountContinue(n, keys) ==
  /\ cKeys' = keys
  /\ cNext' = TokenAfter(n)
  /\ IF TokenAfter(n) # 0
     THEN cPc' = "page" /\ UNCHANGED cResult
     ELSE cPc' = "done" /\ cResult' = Cardinality(keys)
  /\ UNCHANGED <<cPages, cFailed>>

\* the catch (lines 861-864)
CountCatch ==
  /\ cPc' = "done"
  /\ cResult' = 0
  /\ cFailed' = TRUE
  /\ UNCHANGED <<cPages, cNext, cKeys>>

\* the reply to the first request (lines 841-848)
CountFirstReply ==
  /\ cPc = "first"
  /\ \E o \in Outcomes :
       IF o = "ok" THEN CountContinue(1, AddKeys({}, cPages[1])) ELSE CountCatch
  /\ UNCHANGED notCount

\* the reply to a request of the loop (lines 850-858)
CountPageReply ==
  /\ cPc = "page"
  /\ \E o \in Outcomes :
       IF o = "ok"
       THEN CountContinue(cNext + 1, AddKeys(cKeys, cPages[cNext + 1]))
       ELSE CountCatch
  /\ UNCHANGED notCount

(***************************************************************************)
(* SpecOpen: the open-issue count of getProductSupportData (lines 399-455) *)
(***************************************************************************)
Min(a, b) == IF a < b THEN a ELSE b

ListingOrders(n) == {f \in [1..n -> 1..n] : Range(f) = 1..n}

OpenIdle ==
  /\ oN = 0
  /\ oOrder = <<>>
  /\ oPc = "idle"
  /\ oToken = 0
  /\ oBatch = <<>>
  /\ oKeys = {}
  /\ oTotal = 0
  /\ oMock = FALSE

\* the tracker's state (unchanged during the scan) and the count query
\* sent (lines 403-413)
OpenInit ==
  /\ oN \in 0..MaxIssues
  /\ oOrder \in ListingOrders(oN)
  /\ oPc = "count"
  /\ oToken = 0
  /\ oBatch = <<>>
  /\ oKeys = {}
  /\ oTotal = 0
  /\ oMock = FALSE

\* the catch of getProductSupportData (lines 574-577)
OpenCatch ==
  /\ oPc' = "done"
  /\ oMock' = TRUE
  /\ UNCHANGED <<oN, oOrder, oToken, oBatch, oKeys, oTotal>>

\* the reply to the count query, maxResults 1 and no ORDER BY (lines
\* 403-413): one issue, and a token when more match
OpenCountReply ==
  /\ oPc = "count"
  /\ \E o \in Outcomes :
       IF o = "ok"
       THEN /\ oToken' = IF oN > 1 THEN 1 ELSE 0
            /\ oPc' = "batch"
            /\ UNCHANGED <<oN, oOrder, oBatch, oKeys, oTotal, oMock>>
       ELSE OpenCatch
  /\ UNCHANGED notOpen

\* the loop test of line 435 and, after the loop, line 455
OpenContinue(token, keys) ==
  /\ oKeys' = keys
  /\ oToken' = token
  /\ IF token # 0
     THEN oPc' = "page" /\ UNCHANGED oTotal
     ELSE oPc' = "done" /\ oTotal' = Cardinality(keys)
  /\ UNCHANGED <<oN, oOrder, oMock>>

\* the reply to the display query, ORDER BY created DESC (lines 416-433):
\* the newest issues first; issueKeys starts from them, nextPageToken from
\* the count response
OpenBatchReply ==
  /\ oPc = "batch"
  /\ \E o \in Outcomes :
       IF o = "ok"
       THEN LET issues == [i \in 1..Min(oN, PageLimit) |-> oN + 1 - i]
            IN /\ oBatch' = issues
               /\ OpenContinue(oToken, Range(issues))
       ELSE OpenCatch
  /\ UNCHANGED notOpen

\* the reply to a page request of the loop (lines 435-453): the listing of
\* the count query continued after the token
OpenPageReply ==
  /\ oPc = "page"
  /\ \E o \in Outcomes :
       IF o = "ok"
       THEN LET last == Min(oToken + PageLimit, oN)
                page == SubSeq(oOrder, oToken + 1, last)
            IN /\ OpenContinue(IF last < oN THEN last ELSE 0,
                               oKeys \cup Range(page))
               /\ UNCHANGED oBatch
       ELSE OpenCatch
  /\ UNCHANGED notOpen

(***************************************************************************)
(* SpecTrend: get8WeeksTrendData (lines 872-978)                           *)
(***************************************************************************)
TrendIdle ==
  /\ tDow = 1
  /\ tPc = "idle"
  /\ tI = 0
  /\ tCurrentWeek = <<>>
  /\ tWeeks = <<>>
  /\ tLive = 0
  /\ tLeft = 0
  /\ tZone = 0
  /\ tFailed = FALSE
  /\ tOpenCalls = 0

\* the zones the process runs in: UTC, or one hour ahead of it (Denmark)
Zones == {0, 1}

\* the call on some day of the week (lines 874-883)
TrendInit ==
  /\ tDow \in 0..6
  /\ tZone \in Zones
  /\ tPc = "days"
  /\ tI = 0
  /\ tCurrentWeek = <<>>
  /\ tWeeks = <<>>
  /\ tLive = 0
  /\ tLeft = MaxTrendEvents
  /\ tFailed = FALSE
  /\ tOpenCalls = 0

\* line 881
DaysToMonday(dayOfWeek) == IF dayOfWeek = 0 THEN -6 ELSE 1 - dayOfWeek

\* the day loop runs for `day`: day < 7 and the date is not after today
\* (lines 886-891)
DayLoopRuns(day) == day < 7 /\ ~(day > -DaysToMonday(tDow))

\* toISOString().split('T')[0] of the local midnight that starts `day`
\* (lines 893, 924); days are numbered from the Monday of the current
\* week.  The midnight of a clock ahead of UTC is an instant of the UTC day
\* before.
ISODate(day) == IF tZone > 0 THEN day - 1 ELSE day

\* getCountWithPagination as its caller sees it (lines 839-865): the
\* number counted, or 0 when a request failed; the pair <<count, failed>>
CountResults(most) ==
  {<<n, FALSE>> : n \in 0..most} \cup {<<0, TRUE>>}

\* one iteration of the day loop (lines 886-914): the two awaited counts
\* and the push
TrendDay ==
  /\ tPc = "days"
  /\ DayLoopRuns(tI)
  /\ \E createdCount \in CountResults(tLeft) :
       \E resolvedCount \in CountResults(tLeft - createdCount[1]) :
         /\ tCurrentWeek' = Append(tCurrentWeek,
               [date |-> ISODate(tI), created |-> createdCount[1],
                resolved |-> resolvedCount[1], open |-> 0])
         /\ tLeft' = tLeft - createdCount[1] - resolvedCount[1]
         /\ tFailed' = (tFailed \/ createdCount[2] \/ resolvedCount[2])
  /\ tI' = IF DayLoopRuns(tI + 1) THEN tI + 1 ELSE 1
  /\ tPc' = IF DayLoopRuns(tI + 1) THEN "days" ELSE "weeks"
  /\ UNCHANGED <<tDow, tWeeks, tLive, tZone, tOpenCalls>>
  /\ UNCHANGED notTrend

\* one iteration of the week loop (lines 917-944): the two awaited counts
\* and the unshift; after the last one the live open count is called for
\* (line 949)
TrendWeek ==
  /\ tPc = "weeks"
  /\ tI <= 8
  /\ \E createdCount \in CountResults(tLeft) :
       \E resolvedCount \in CountResults(tLeft - createdCount[1]) :
         /\ tWeeks' = <<[weekStart |-> ISODate(-(tI * 7)),
                         created |-> createdCount[1],
                         resolved |-> resolvedCount[1], open |-> 0]>> \o tWeeks
         /\ tLeft' = tLeft - createdCount[1] - resolvedCount[1]
         /\ tFailed' = (tFailed \/ createdCount[2] \/ resolvedCount[2])
  /\ tI' = tI + 1
  /\ tPc' = IF tI + 1 <= 8 THEN "weeks" ELSE "open"
  /\ tOpenCalls' = IF tI + 1 <= 8 THEN tOpenCalls ELSE tOpenCalls + 1
  /\ UNCHANGED <<tDow, tCurrentWeek, tLive, tZone>>
  /\ UNCHANGED notTrend

\* lines 952-954 left out: the last day keeps open: 0
AnchorOpenNone(currentWeek, runningOpen) == currentWeek

\* lines 952-954
AnchorOpen(currentWeek, runningOpen) ==
  IF Len(currentWeek) > 0
  THEN [currentWeek EXCEPT ![Len(currentWeek)].open = runningOpen]
  ELSE currentWeek

\* the backward walk through the days (lines 957-960), from index i
\* (1-based) down: the pair <<currentWeek, runningOpen>> it ends with
RECURSIVE WalkDays(_, _, _)
WalkDays(currentWeek, i, runningOpen) ==
  IF i > 1
  THEN LET r == runningOpen - currentWeek[i].created + currentWeek[i].resolved
       IN WalkDays([currentWeek EXCEPT ![i - 1].open = r], i - 1, r)
  ELSE <<currentWeek, runningOpen>>

\* the backward walk through the weeks (lines 963-966)
RECURSIVE WalkWeeks(_, _, _)
WalkWeeks(weeks, i, runningOpen) ==
  IF i >= 1
  THEN LET r == runningOpen - weeks[i].created + weeks[i].resolved
       IN WalkWeeks([weeks EXCEPT ![i].open = r], i - 1, r)
  ELSE <<weeks, runningOpen>>

\* the live open count arrives (line 949) and the running balance is
\* computed (lines 952-968).  No upstream failure reaches the catch of
\* lines 970-977: getCountWithPagination has caught it.
TrendOpen ==
  /\ tPc = "open"
  /\ \E openCount \in CountResults(MaxOpen) :
       LET runningOpen == openCount[1]
           anchored == AnchorOpen(tCurrentWeek, runningOpen)
           days == WalkDays(anchored, Len(anchored), runningOpen)
           wks == WalkWeeks(tWeeks, Len(tWeeks), days[2])
       IN /\ tLive' = runningOpen
          /\ tFailed' = (tFailed \/ openCount[2])
          /\ tCurrentWeek' = days[1]
          /\ tWeeks' = wks[1]
  /\ tPc' = "done"
  /\ UNCHANGED <<tDow, tI, tLeft, tZone, tOpenCalls>>
  /\ UNCHANGED notTrend

(***************************************************************************)
(* SpecBH: calculateBusinessHours (lines 638-679).  An instant is a number *)
(* of half hours of local time since the midnight that starts a Monday;    *)
(* every day has 24 hours (no change of the clock falls in the window).    *)
(***************************************************************************)
WORK_START_HOUR == 9
WORK_END_HOUR == 15

UnitsPerHour == 2
UnitsPerDay == 24 * UnitsPerHour
MinutesPerUnit == 60 \div UnitsPerHour

\* the instant of day `day` at hour:00 plus `units` half hours
At(day, hour, units) == day * UnitsPerDay + hour * UnitsPerHour + units

\* Date.getDay(): 0 Sunday .. 6 Saturday
getDay(date) == ((date \div UnitsPerDay) + 1) % 7

\* Date.setHours(hour, 0, 0, 0)
setHours(date, hour) == (date \div UnitsPerDay) * UnitsPerDay + hour * UnitsPerHour

\* setDate(getDate() + 1); setHours(0, 0, 0, 0) (lines 669-670)
NextMidnight(date) == ((date \div UnitsPerDay) + 1) * UnitsPerDay

\* the weekend test of line 651, with Saturday taken for a working day
IsWeekendSundayOnly(dayOfWeek) == dayOfWeek = 0

\* the weekend test of line 651
IsWeekend(dayOfWeek) == dayOfWeek = 0 \/ dayOfWeek = 6

\* line 661 without the clipping at end
OverlapEndUnclipped(end, workEnd) == workEnd

\* line 661
OverlapEnd(end, workEnd) == IF end < workEnd THEN end ELSE workEnd

\* line 660
OverlapStart(current, workStart) == IF current > workStart THEN current ELSE workStart

\* the loop of lines 647-676, entered with `current` and the sum so far
RECURSIVE BusinessLoop(_, _, _)
BusinessLoop(current, end, businessMilliseconds) ==
  IF ~(current < end)
  THEN businessMilliseconds
  ELSE LET dayOfWeek == getDay(current)
           workStart == setHours(current, WORK_START_HOUR)
           workEnd == setHours(current, WORK_END_HOUR)
           overlapStart == OverlapStart(current, workStart)
           overlapEnd == OverlapEnd(end, workEnd)
           sum == IF ~IsWeekend(dayOfWeek) /\ overlapStart < overlapEnd
                  THEN businessMilliseconds + (overlapEnd - overlapStart)
                  ELSE businessMilliseconds
           next == NextMidnight(current)
       IN IF next >= end THEN sum ELSE BusinessLoop(next, end, sum)

calculateBusinessHours(startDate, endDate) == BusinessLoop(startDate, endDate, 0)

\* the times of day instants are drawn from: midnight, just before, at and
\* just after both ends of the window, inside it, and the end of the day
TimesOfDay ==
  {0, WORK_START_HOUR * UnitsPerHour - 1, WORK_START_HOUR * UnitsPerHour,
   WORK_START_HOUR * UnitsPerHour + 1, (WORK_START_HOUR + 1) * UnitsPerHour,
   WORK_END_HOUR * UnitsPerHour - 1, WORK_END_HOUR * UnitsPerHour,
   WORK_END_HOUR * UnitsPerHour + 1, UnitsPerDay - 1}

Instants == {At(day, 0, time) : day \in 0..MaxBHDay, time \in TimesOfDay}

BHIdle ==
  /\ bhStart = 0
  /\ bhEnd = 0
  /\ bhPc = "idle"
  /\ bhResult = 0

\* a call with any two instants, in either order
BHInit ==
  /\ bhStart \in Instants
  /\ bhEnd \in Instants
  /\ bhPc = "called"
  /\ bhResult = 0

BusinessHoursReturn ==
  /\ bhPc = "called"
  /\ bhResult' = calculateBusinessHours(bhStart, bhEnd)
  /\ bhPc' = "returned"
  /\ UNCHANGED <<bhStart, bhEnd>>
  /\ UNCHANGED notBH

(***************************************************************************)
(* SpecAnalyze: calculateTimeToFirstResponse, calculateSlaCompliance and   *)
(* calculateAverageLifetime (lines 718-834) with formatDuration and median *)
(* (lines 609-630).  Durations are half hours like the instants of         *)
(* calculateBusinessHours; a quotient is kept exact as [num, den].         *)
(***************************************************************************)
\* JavaScript null
Null == [null |-> TRUE]

\* a field the issue does not have
NoValue == -1

\* Math.round of num / den (den > 0): halves go up
MathRound(num, den) == (2 * num + den) \div (2 * den)

\* formatDuration (lines 609-622) of num / den: the text as its amounts
\* and unit letters
formatDuration(num, den) ==
  LET hours == num \div (den * UnitsPerHour)
      minutes == ((num % (den * UnitsPerHour)) * MinutesPerUnit) \div den
      days == hours \div 6
      remainingHours == hours % 6
  IN IF days > 0
     THEN IF remainingHours > 0
          THEN <<<<days, "d">>, <<remainingHours, "t">>>>
          ELSE <<<<days, "d">>>>
     ELSE IF hours > 0
          THEN IF minutes > 0
               THEN <<<<hours, "t">>, <<minutes, "m">>>>
               ELSE <<<<hours, "t">>>>
          ELSE <<<<minutes, "m">>>>

\* [...values].sort((a, b) => a - b)
RECURSIVE Insert(_, _)
Insert(sorted, v) ==
  IF sorted = <<>> THEN <<v>>
  ELSE IF v < Head(sorted) THEN <<v>> \o sorted
  ELSE <<Head(sorted)>> \o Insert(Tail(sorted), v)

RECURSIVE Sort(_)
Sort(values) ==
  IF values = <<>> THEN <<>> ELSE Insert(Sort(Tail(values)), Head(values))

\* median (lines 624-630, and inline in lines 743-747)
median(values) ==
  LET sorted == Sort(values)
      mid == Len(sorted) \div 2
  IN IF Len(sorted) % 2 = 0
     THEN [num |-> sorted[mid] + sorted[mid + 1], den |-> 2]
     ELSE [num |-> sorted[mid + 1], den |-> 1]

\* reduce((a, b) => a + b, 0)
RECURSIVE Sum(_)
Sum(values) == IF values = <<>> THEN 0 ELSE Head(values) + Sum(Tail(values))

\* the mean of lines 820, 824, 825
Mean(values) == [num |-> Sum(values), den |-> Len(values)]

\* Math.round(((recent - previous) / previous) * 100) of two quotients,
\* previous > 0 (lines 754, 826)
ChangePercent(recent, previous) ==
  MathRound(100 * (recent.num * previous.den - previous.num * recent.den),
            previous.num * recent.den)

\* the test of lines 750 and 823 never passing
BothPartitionsNever(recent, previous) == FALSE

\* the test of lines 750 and 823
BothPartitions(recent, previous) == Len(recent) > 0 /\ Len(previous) > 0

\* the call happens on day 16 (a Wednesday) at noon
Now == At(16, 12, 0)

\* lines 720-721, 799-800
fifteenDaysAgo == Now - 15 * UnitsPerDay

\* the values pushed by the loop of lines 726-737 for one partition
RECURSIVE TtfrTimes(_, _)
TtfrTimes(issues, recent) ==
  IF issues = <<>> THEN <<>>
  ELSE LET issue == Head(issues)
           isRecent == issue.resolutiondate # NoValue
                       /\ issue.resolutiondate >= fifteenDaysAgo
       IN IF issue.ttfr # NoValue /\ issue.ttfr # 0 /\ isRecent = recent
          THEN <<issue.ttfr>> \o TtfrTimes(Tail(issues), recent)
          ELSE TtfrTimes(Tail(issues), recent)

calculateTimeToFirstResponse(resolvedIssues) ==
  LET recentTimes == TtfrTimes(resolvedIssues, TRUE)
      previousTimes == TtfrTimes(resolvedIssues, FALSE)
      allTimes == recentTimes \o previousTimes
  IN IF Len(allTimes) = 0 THEN Null
     ELSE [value |-> formatDuration(median(allTimes).num, median(allTimes).den),
           changePercent |->
             IF BothPartitions(recentTimes, previousTimes)
                /\ median(previousTimes).num > 0
             THEN [number |-> ChangePercent(median(recentTimes),
                                            median(previousTimes))]
             ELSE Null]

\* the first key number of the issues with a tracked SLA (line 777)
FirstSlaKey == 1610

\* the issues counted by the loop of lines 774-785; with `within`, those
\* not breached
RECURSIVE SlaCount(_, _)
SlaCount(issues, within) ==
  IF issues = <<>> THEN 0
  ELSE LET issue == Head(issues)
       IN (IF /\ ~(issue.key < FirstSlaKey)
              /\ issue.cycle # "none"
              /\ (within => issue.cycle # "breached")
           THEN 1 ELSE 0) + SlaCount(Tail(issues), within)

\* IEEE 754 double arithmetic, as far as line 787 uses it.  A positive
\* double is [m, exp]: m its significand as bits, least significant first,
\* and exp the power of two of m[1]; zero has m = <<>>.
SignificandBits == 53

\* the sum of two bit sequences
RECURSIVE AddBits(_, _, _)
AddBits(a, b, carry) ==
  IF a = <<>> /\ b = <<>>
  THEN IF carry = 1 THEN <<1>> ELSE <<>>
  ELSE LET x == IF a = <<>> THEN 0 ELSE Head(a)
           y == IF b = <<>> THEN 0 ELSE Head(b)
           sum == x + y + carry
       IN <<sum % 2>> \o AddBits(IF a = <<>> THEN a ELSE Tail(a),
                                 IF b = <<>> THEN b ELSE Tail(b),
                                 sum \div 2)

\* round to nearest, ties to even, to SignificandBits bits; sticky tells
\* that the exact value has non-zero bits below m
RoundToDouble(m, exp, sticky) ==
  IF Len(m) <= SignificandBits
  THEN [m |-> m, exp |-> exp]
  ELSE LET dropped == Len(m) - SignificandBits
           kept == SubSeq(m, dropped + 1, Len(m))
           rest == sticky \/ \E i \in 1..(dropped - 1) : m[i] = 1
           up == m[dropped] = 1 /\ (rest \/ kept[1] = 1)
       IN [m |-> IF up THEN AddBits(kept, <<1>>, 0) ELSE kept,
           exp |-> exp + dropped]

\* long division of r / b, r < b, after the bits m: two bits more than a
\* double keeps, and whether a remainder is left
RECURSIVE QuotientBits(_, _, _, _)
QuotientBits(r, b, m, exp) ==
  IF Len(m) = SignificandBits + 2 \/ r = 0
  THEN [m |-> m, exp |-> exp, sticky |-> r # 0]
  ELSE LET bit == IF 2 * r >= b THEN 1 ELSE 0
       IN QuotientBits(2 * r - bit * b, b,
                       IF m = <<>> /\ bit = 0 THEN m ELSE <<bit>> \o m,
                       exp - 1)

RECURSIVE IntBits(_)
IntBits(n) == IF n = 0 THEN <<>> ELSE <<n % 2>> \o IntBits(n \div 2)

RECURSIVE BitsInt(_)
BitsInt(m) == IF m = <<>> THEN 0 ELSE Head(m) + 2 * BitsInt(Tail(m))

\* the double a / b of two integers, 0 <= a, 0 < b
DoubleDivide(a, b) ==
  LET q == QuotientBits(a % b, b, IntBits(a \div b), 0)
  IN RoundToDouble(q.m, q.exp, q.sticky)

\* the product of the bits m with the integer k
RECURSIVE TimesBits(_, _)
TimesBits(m, k) ==
  IF k = 0 THEN <<>>
  ELSE AddBits(IF k % 2 = 1 THEN m ELSE <<>>,
               <<0>> \o TimesBits(m, k \div 2), 0)

\* the double x * k, k a positive integer
DoubleTimes(x, k) == RoundToDouble(TimesBits(x.m, k), x.exp, FALSE)

\* Math.round of a double x >= 0 with x.exp <= 0: the integer part, and
\* one more when the bit of weight 1/2 is set
DoubleRound(x) ==
  LET frac == -x.exp
  IN (IF frac < Len(x.m) THEN BitsInt(SubSeq(x.m, frac + 1, Len(x.m))) ELSE 0)
     + (IF frac >= 1 /\ frac <= Len(x.m) THEN x.m[frac] ELSE 0)

calculateSlaCompliance(resolvedIssues) ==
  LET total == SlaCount(resolvedIssues, FALSE)
      withinSla == SlaCount(resolvedIssues, TRUE)
  IN IF total = 0 THEN Null
     ELSE [number |-> DoubleRound(DoubleTimes(DoubleDivide(withinSla, total), 100))]

\* the values pushed by the loop of lines 804-815 for one partition
RECURSIVE Lifetimes(_, _)
Lifetimes(issues, recent) ==
  IF issues = <<>> THEN <<>>
  ELSE LET issue == Head(issues)
           lifetime == calculateBusinessHours(issue.created, issue.resolutiondate)
           isRecent == issue.resolutiondate >= fifteenDaysAgo
       IN IF /\ issue.created # NoValue /\ issue.resolutiondate # NoValue
             /\ lifetime > 0
             /\ isRecent = recent
          THEN <<lifetime>> \o Lifetimes(Tail(issues), recent)
          ELSE Lifetimes(Tail(issues), recent)

\* lines 820-829
LifetimeOf(recentLifetimes, previousLifetimes) ==
  [value |-> formatDuration(Sum(recentLifetimes \o previousLifetimes),
                            Len(recentLifetimes \o previousLifetimes)),
   changePercent |->
     IF BothPartitions(recentLifetimes, previousLifetimes)
     THEN [number |-> ChangePercent(Mean(recentLifetimes),
                                    Mean(previousLifetimes))]
     ELSE Null]

\* lines 817-829 without the test of line 818: a zero duration for no sample
LifetimeResultZero(recentLifetimes, previousLifetimes) ==
  IF Len(recentLifetimes \o previousLifetimes) = 0
  THEN [value |-> formatDuration(0, 1), changePercent |-> Null]
  ELSE LifetimeOf(recentLifetimes, previousLifetimes)

\* lines 817-829
LifetimeResult(recentLifetimes, previousLifetimes) ==
  IF Len(recentLifetimes \o previousLifetimes) = 0
  THEN Null
  ELSE LifetimeOf(recentLifetimes, previousLifetimes)

calculateAverageLifetime(resolvedIssues) ==
  LifetimeResult(Lifetimes(resolvedIssues, TRUE),
                 Lifetimes(resolvedIssues, FALSE))

\* an issue as the analyzers read it: the number of its key, its two
\* timestamps, the elapsed time of the first completed cycle of the
\* response-time field, and the first completed cycle of customfield_10111
Issue(key, created, resolutiondate, ttfr, cycle) ==
  [key |-> key, created |-> created, resolutiondate |-> resolutiondate,
   ttfr |-> ttfr, cycle |-> cycle]

\* creation: Monday 14:30 of the first week, or the Saturday after at 10:00
CreatedDates == {At(0, WORK_END_HOUR, -1), At(5, 10, 0)}

\* resolution: before the fifteen-day limit (Tuesday 11:00), exactly at it,
\* on the Saturday at noon, on the Wednesday of the next week
ResolvedDates == {fifteenDaysAgo - UnitsPerHour, fifteenDaysAgo,
                  At(5, 12, 0), At(9, 11, 0)}

\* the issues each analyzer is given: the fields it reads take every
\* value, the fields it does not read are fixed
IssuesFor(which) ==
  CASE which = "ttfr" ->
         {Issue(FirstSlaKey, At(0, WORK_END_HOUR, -1), r, e, "none") :
            r \in ResolvedDates \cup {NoValue}, e \in {NoValue, 0, 1, 3}}
    [] which = "sla" ->
         {Issue(k, At(0, WORK_END_HOUR, -1), fifteenDaysAgo, NoValue, c) :
            k \in {FirstSlaKey - 1, FirstSlaKey},
            c \in {"none", "met", "breached"}}
    [] which = "lifetime" ->
         {i \in {Issue(FirstSlaKey, c, r, NoValue, "none") :
                   c \in CreatedDates \cup {NoValue},
                   r \in ResolvedDates \cup {NoValue}} :
            (i.created # NoValue /\ i.resolutiondate # NoValue)
               => i.created <= i.resolutiondate}

\* ten issues with a tracked SLA, the last one breached
TenIssuesOneBreached ==
  [i \in 1..10 |->
     Issue(FirstSlaKey + i, At(0, WORK_END_HOUR, -1), fifteenDaysAgo, NoValue,
           IF i = 10 THEN "breached" ELSE "met")]

\* forty issues with a tracked SLA, the first 23 met and the other 17
\* breached
FortyIssues23Met ==
  [i \in 1..40 |->
     Issue(FirstSlaKey + i, At(0, WORK_END_HOUR, -1), fifteenDaysAgo, NoValue,
           IF i <= 23 THEN "met" ELSE "breached")]

AnalyzeIdle ==
  /\ aWhich = "none"
  /\ aIssues = <<>>
  /\ aPc = "idle"
  /\ aResult = Null

\* a call of one analyzer with the issues fetchResolvedIssues30Days returned
AnalyzeInit ==
  /\ aWhich \in {"ttfr", "sla", "lifetime"}
  /\ \/ aIssues \in SeqsUpTo(IssuesFor(aWhich), MaxAnalyzed)
     \/ aWhich = "sla" /\ aIssues \in {TenIssuesOneBreached, FortyIssues23Met}
  /\ aPc = "called"
  /\ aResult = Null

AnalyzeReturn(which, result) ==
  /\ aPc = "called"
  /\ aWhich = which
  /\ aResult' = result
  /\ aPc' = "returned"
  /\ UNCHANGED <<aWhich, aIssues>>
  /\ UNCHANGED notAnalyze

TtfrReturn == AnalyzeReturn("ttfr", calculateTimeToFirstResponse(aIssues))

SlaReturn == AnalyzeReturn("sla", calculateSlaCompliance(aIssues))

LifetimeReturn == AnalyzeReturn("lifetime", calculateAverageLifetime(aIssues))

(***************************************************************************)
(* SpecMetrics: calculateMetrics (lines 580-604) with calculateAge (lines  *)
(* 1183-1192).  Instants are hours.                                        *)
(***************************************************************************)
\* new Date() of line 1184
MetricsNow == 100

\* calculateAge (lines 1183-1192): the text as its amount and unit letter
calculateAge(createdDate) ==
  LET diffHours == MetricsNow - createdDate
      diffDays == diffHours \div 24
  IN IF diffDays > 0 THEN <<diffDays, "d">> ELSE <<diffHours, "t">>

\* the filter of line 588 letting every issue pass
NotClosedAny(issue) == TRUE

\* the filter of line 588
NotClosed(issue) == issue.status # "Closed"

\* the filter of lines 583-585
IsHighest(issue) == issue.priority = "Highest"

\* the entries slice(0, 4) keeps (line 589)
TopCount == 4

\* the map of lines 590-595
TopIssue(issue) ==
  [key |-> issue.key, title |-> issue.summary, status |-> issue.status,
   age |-> calculateAge(issue.created)]

\* slice(0, count) keeping the whole array
SliceAll(array, count) == array

\* slice(0, count) (line 589)
Slice(array, count) == SubSeq(array, 1, Min(count, Len(array)))

calculateMetrics(issues, totalOpenIssues, closedToday, newToday) ==
  LET open == SelectSeq(issues, NotClosed)
      top == Slice(open, TopCount)
  IN [openIssues |-> totalOpenIssues,
      newToday |-> newToday,
      closedToday |-> closedToday,
      criticalP1 |-> Len(SelectSeq(issues, IsHighest)),
      topIssues |-> [i \in DOMAIN top |-> TopIssue(top[i])]]

\* the display batches (line 429): the newest issue first, 13 hours
\* between two issues, every status and priority
Batches(n) ==
  {[i \in 1..n |->
      [key |-> n + 1 - i, summary |-> n + 1 - i,
       created |-> MetricsNow - 13 * i,
       status |-> st[i], priority |-> pr[i]]] :
     st \in [1..n -> {"Open", "In Progress", "Closed"}],
     pr \in [1..n -> {"Highest", "Medium"}]}

\* maxResults of the batch request (line 421)
BatchLimit == 100

\* the keys of the loop of lines 435-453: no further page; a page that
\* repeats the key of the oldest issue of a batch of n; a page with a key
\* the batch does not have
FurtherPages(n) == {<<>>, <<1>>, <<n + 1>>}

\* totalOpenIssues (lines 432-455): the keys of the batch and of the
\* further pages, in one Set
TotalOpenIssues(issues, page) ==
  Cardinality(AddKeys(AddKeys({}, [i \in DOMAIN issues |-> issues[i].key]), page))

MetricsIdle ==
  /\ mIssues = <<>>
  /\ mCounts = [open |-> 0, closed |-> 0, new |-> 0]
  /\ mPc = "idle"
  /\ mResult = Null

\* the call of line 548
MetricsInit ==
  /\ \E n \in 0..MaxBatch : mIssues \in Batches(n)
  /\ mCounts \in {[open |-> TotalOpenIssues(mIssues, page), closed |-> 1,
                      new |-> 2] : page \in FurtherPages(Len(mIssues))}
  /\ mPc = "called"
  /\ mResult = Null

MetricsReturn ==
  /\ mPc = "called"
  /\ mResult' = calculateMetrics(mIssues, mCounts.open, mCounts.closed,
                                 mCounts.new)
  /\ mPc' = "returned"
  /\ UNCHANGED <<mIssues, mCounts>>
  /\ UNCHANGED notMetrics

(***************************************************************************)
(* SpecAssemble: lines 551-572 of getProductSupportData, from the resolved *)
(* issues to the object returned.  A text is [text |-> ...], a number      *)
(* [number |-> ...].                                                       *)
(***************************************************************************)
\* the placeholder text of lines 561-570
Dash == [text |-> <<<<0, "-">>>>]

\* line 569 with the SLA value reported for both products
ReportsSlaAlways(productName) == TRUE

\* line 569: productName === 'HallMonitor'
ReportsSla(productName) == productName = "HallMonitor"

\* lines 560-572
AssembleResult(productName, metrics, trendData, timeToFirstResponse, slaComplianceOrLifetime) ==
  LET ttfrObj == IF timeToFirstResponse # Null
                 THEN [value |-> [text |-> timeToFirstResponse.value],
                       changePercent |-> timeToFirstResponse.changePercent]
                 ELSE [value |-> Dash, changePercent |-> Null]
      hasLifetime == productName = "SwitchPay" /\ slaComplianceOrLifetime # Null
  IN [openIssues |-> metrics.openIssues,
      newToday |-> metrics.newToday,
      closedToday |-> metrics.closedToday,
      criticalP1 |-> metrics.criticalP1,
      topIssues |-> metrics.topIssues,
      trendData |-> trendData,
      timeToFirstResponse |-> ttfrObj.value,
      timeToFirstResponseChange |-> ttfrObj.changePercent,
      slaCompliance |->
        IF ReportsSla(productName) THEN slaComplianceOrLifetime ELSE Null,
      averageLifetime |->
        IF hasLifetime THEN [text |-> slaComplianceOrLifetime.value]
        ELSE IF productName = "SwitchPay" THEN Dash ELSE Null,
      averageLifetimeChange |->
        IF hasLifetime THEN slaComplianceOrLifetime.changePercent ELSE Null]

\* the resolved issues of either product
ResolvedIssues ==
  IssuesFor("ttfr") \cup IssuesFor("sla") \cup IssuesFor("lifetime")

AssembleIdle ==
  /\ gProduct = "none"
  /\ gIssues = <<>>
  /\ gPc = "idle"
  /\ gResult = Null

\* fetchResolvedIssues30Days has returned (line 551)
AssembleInit ==
  /\ gProduct \in Tenants
  /\ gIssues \in SeqsUpTo(ResolvedIssues, MaxResolved)
  /\ gPc = "analyze"
  /\ gResult = Null

\* lines 552-572: the analyzers run, getCachedTrendData returns a series
\* and the result is assembled
AssembleReturn ==
  /\ gPc = "analyze"
  /\ gResult' =
       AssembleResult(gProduct,
                      calculateMetrics(<<>>, 0, 0, 0),
                      [id |-> 1, mock |-> FALSE, weeks |-> 8, currentWeek |-> 7],
                      calculateTimeToFirstResponse(gIssues),
                      IF gProduct = "HallMonitor"
                      THEN calculateSlaCompliance(gIssues)
                      ELSE calculateAverageLifetime(gIssues))
  /\ gPc' = "returned"
  /\ UNCHANGED <<gProduct, gIssues>>
  /\ UNCHANGED notAssemble

(***************************************************************************)
(* The specifications                                                      *)
(***************************************************************************)

(***************************************************************************)
(* SpecPipe: the upstream calls of one getProductSupportData call of a     *)
(* tenant with credentials (lines 391-578), with those of                  *)
(* fetchResolvedIssues30Days (lines 685-713), getCachedTrendData (lines    *)
(* 1163-1181) and the getCountWithPagination calls (lines 839-865) of      *)
(* get8WeeksTrendData (lines 872-978).  A query is <<filter, token>>; what *)
(* the pages hold is left out.  Every action is the reply to the call in   *)
(* flight together with the code that runs until the next call is sent.    *)
(***************************************************************************)
Tokens == 0..MaxToken

Filter(kind, bucket) == [kind |-> kind, bucket |-> bucket]

\* the JQL of lines 406, 439 and 949
OpenFilter == Filter("open", 0)
\* the JQL of line 400
OpenOrderedFilter == Filter("openOrdered", 0)
\* the JQL of line 477
ClosedTodayFilter == Filter("closedToday", 0)
\* the JQL of line 524
CreatedTodayFilter == Filter("createdToday", 0)
\* the JQL of line 690
ResolvedFilter == Filter("resolved30", 0)

\* the getCountWithPagination calls of get8WeeksTrendData: created and
\* resolved of every bucket (lines 897-902, 927-932), then the open count
\* (lines 948-949)
TrendCalls == 2 * MaxTrendBuckets + 1

TrendFilter(i) ==
  IF i > 2 * MaxTrendBuckets THEN OpenFilter
  ELSE IF i % 2 = 1 THEN Filter("created", (i + 1) \div 2)
  ELSE Filter("resolved", i \div 2)

\* the five steps of the pipeline
Steps == {"open", "batch", "today", "resolved", "trend"}

PipeIdle ==
  /\ pTenant = "none"
  /\ pPc = "idle"
  /\ pLast = <<OpenFilter, 0>>
  /\ pTick = 0
  /\ pCountToken = 0
  /\ pTrendI = 0
  /\ pFailed = {}
  /\ pDone = {}
  /\ pPaged = FALSE
  /\ pResult = NoRes

\* the call is made and the count request of lines 403-413 sent
PipeInit ==
  /\ pTenant \in Tenants
  /\ pPc = "count"
  /\ pLast = <<OpenFilter, 0>>
  /\ pTick = 0
  /\ pCountToken = 0
  /\ pTrendI = 0
  /\ pFailed = {}
  /\ pDone = {}
  /\ pPaged = FALSE
  /\ pResult = NoRes

\* an axios.post is sent and awaited at `position`
Send(position, filter, token) ==
  /\ pPc' = position
  /\ pLast' = <<filter, token>>
  /\ pTick' = 1 - pTick

\* getProductSupportData resolves
Return(value) ==
  /\ pPc' = "returned"
  /\ pResult' = value
  /\ UNCHANGED <<pLast, pTick>>

\* the catch of lines 574-577 sending the failed call once more
PipeCatchRetry ==
  /\ Send(pPc, pLast[1], pLast[2])
  /\ pFailed' = pFailed \cup {pLast}
  /\ UNCHANGED <<pCountToken, pTrendI, pDone, pPaged, pResult>>

\* the catch of lines 574-577
PipeCatch ==
  /\ Return(getSingleProductMockData(pTenant))
  /\ pFailed' = pFailed \cup {pLast}
  /\ UNCHANGED <<pCountToken, pTrendI, pDone, pPaged>>

\* the loop test never failing
LoopEndsNever(token) == FALSE

\* the loop test of lines 435, 495, 535, 702, 850, negated
LoopEnds(token) == token = 0

\* a loop has taken in a page that came with `token`: the next page is
\* asked for with it, or the loop is left
LoopStep(position, token, Leave) ==
  IF LoopEnds(token)
  THEN Leave
  ELSE /\ Send(position, pLast[1], token)
       /\ pPaged' = TRUE
       /\ UNCHANGED <<pCountToken, pTrendI, pFailed, pDone, pResult>>

\* line 455 is reached; the first closed-today request is sent (line 478)
ToClosed(done) ==
  /\ pDone' = pDone \cup done
  /\ Send("closed", ClosedTodayFilter, 0)
  /\ UNCHANGED <<pCountToken, pTrendI, pFailed, pPaged, pResult>>

\* line 513 is reached; the first created-today request is sent (line 525)
ToCreated ==
  /\ Send("created", CreatedTodayFilter, 0)
  /\ UNCHANGED <<pCountToken, pTrendI, pFailed, pDone, pPaged, pResult>>

\* lines 545-551: calculateMetrics runs and fetchResolvedIssues30Days sends
\* its first request (line 693)
ToResolved ==
  /\ pDone' = pDone \cup {"today"}
  /\ Send("resolved", ResolvedFilter, 0)
  /\ UNCHANGED <<pCountToken, pTrendI, pFailed, pPaged, pResult>>

\* lines 552-558 and 1163-1174: the analyzers run; getCachedTrendData
\* returns a valid entry, which ends the call (lines 560-572), or
\* get8WeeksTrendData sends its first count request
ToTrend ==
  /\ \E valid \in BOOLEAN :
       IF valid
       THEN /\ Return(LiveData(pTenant, [id |-> 1, mock |-> FALSE, weeks |-> 8,
                                         currentWeek |-> 7]))
            /\ pDone' = pDone \cup {"resolved", "trend"}
            /\ UNCHANGED pTrendI
       ELSE /\ Send("trend", TrendFilter(1), 0)
            /\ pDone' = pDone \cup {"resolved"}
            /\ pTrendI' = 1
            /\ UNCHANGED pResult
  /\ UNCHANGED <<pCountToken, pFailed, pPaged>>

\* a getCountWithPagination call of get8WeeksTrendData has returned, with
\* its count or from its catch (lines 860-864): the next one is made, or the
\* series is returned, stored (lines 1176-1180) and the result assembled
\* (lines 560-572)
TrendNext(failed) ==
  /\ pFailed' = pFailed \cup failed
  /\ IF pTrendI < TrendCalls
     THEN /\ Send("trend", TrendFilter(pTrendI + 1), 0)
          /\ pTrendI' = pTrendI + 1
          /\ UNCHANGED <<pDone, pResult>>
     ELSE /\ Return(LiveData(pTenant, [id |-> 2, mock |-> FALSE, weeks |-> 8,
                                       currentWeek |-> 7]))
          /\ pDone' = pDone \cup {"trend"}
          /\ UNCHANGED pTrendI
  /\ UNCHANGED <<pCountToken, pPaged>>

\* the reply to the count request (lines 403-427): the batch request is sent
CountReplyWith(o, k) ==
  /\ pPc = "count"
  /\ IF o = "ok"
     THEN /\ pCountToken' = k
          /\ Send("batch", OpenOrderedFilter, 0)
          /\ UNCHANGED <<pTrendI, pFailed, pDone, pPaged, pResult>>
     ELSE PipeCatch

\* the reply to the batch request (lines 416-436)
BatchReplyWith(o, k) ==
  /\ pPc = "batch"
  /\ IF o = "ok"
     THEN IF LoopEnds(pCountToken)
          THEN ToClosed({"batch", "open"})
          ELSE /\ Send("open", OpenFilter, pCountToken)
               /\ pDone' = pDone \cup {"batch"}
               /\ pPaged' = TRUE
               /\ UNCHANGED <<pCountToken, pTrendI, pFailed, pResult>>
     ELSE PipeCatch

\* the reply to a request of the loop of lines 435-453
OpenPageReplyWith(o, k) ==
  /\ pPc = "open"
  /\ IF o = "ok" THEN LoopStep("open", k, ToClosed({"open"})) ELSE PipeCatch

\* the reply to a closed-today request (lines 478-511)
ClosedReplyWith(o, k) ==
  /\ pPc = "closed"
  /\ IF o = "ok" THEN LoopStep("closed", k, ToCreated) ELSE PipeCatch

\* the reply to a created-today request (lines 525-543)
CreatedReplyWith(o, k) ==
  /\ pPc = "created"
  /\ IF o = "ok" THEN LoopStep("created", k, ToResolved) ELSE PipeCatch

\* the reply to a request of fetchResolvedIssues30Days (lines 693-710),
\* whose failure is caught at line 574
ResolvedReplyWith(o, k) ==
  /\ pPc = "resolved"
  /\ IF o = "ok" THEN LoopStep("resolved", k, ToTrend) ELSE PipeCatch

\* the reply to a request of getCountWithPagination (lines 841-864)
TrendCountReplyWith(o, k) ==
  /\ pPc = "trend"
  /\ IF o = "ok" THEN LoopStep("trend", k, TrendNext({}))
     ELSE TrendNext({pLast})

CountReply ==
  /\ \E o \in Outcomes, k \in Tokens : CountReplyWith(o, k)
  /\ UNCHANGED pTenant /\ UNCHANGED notPipe

BatchReply ==
  /\ \E o \in Outcomes, k \in Tokens : BatchReplyWith(o, k)
  /\ UNCHANGED pTenant /\ UNCHANGED notPipe

PipeOpenPageReply ==
  /\ \E o \in Outcomes, k \in Tokens : OpenPageReplyWith(o, k)
  /\ UNCHANGED pTenant /\ UNCHANGED notPipe

ClosedReply ==
  /\ \E o \in Outcomes, k \in Tokens : ClosedReplyWith(o, k)
  /\ UNCHANGED pTenant /\ UNCHANGED notPipe

CreatedReply ==
  /\ \E o \in Outcomes, k \in Tokens : CreatedReplyWith(o, k)
  /\ UNCHANGED pTenant /\ UNCHANGED notPipe

ResolvedReply ==
  /\ \E o \in Outcomes, k \in Tokens : ResolvedReplyWith(o, k)
  /\ UNCHANGED pTenant /\ UNCHANGED notPipe

TrendCountReply ==
  /\ \E o \in Outcomes, k \in Tokens : TrendCountReplyWith(o, k)
  /\ UNCHANGED pTenant /\ UNCHANGED notPipe

\* a reply that fails or brings a page without a continuation token
LastPageOrFailure ==
  /\ \E o \in Outcomes, k \in Tokens :
       /\ o # "ok" \/ k = 0
       /\ \/ CountReplyWith(o, k)
          \/ BatchReplyWith(o, k)
          \/ OpenPageReplyWith(o, k)
          \/ ClosedReplyWith(o, k)
          \/ CreatedReplyWith(o, k)
          \/ ResolvedReplyWith(o, k)
          \/ TrendCountReplyWith(o, k)
  /\ UNCHANGED pTenant /\ UNCHANGED notPipe

(***************************************************************************)
(* SpecSla: getSlaStatusForType (lines 1423-1524), called by getSlaSummary *)
(* (lines 1387-1415) with 48 and 24 hours.  Times are fifths of an hour.   *)
(***************************************************************************)
\* the slaHours of lines 1400-1401
SlaHours == {48, 24}

UnitsPerSlaHour == 5

\* slaGoalMs and warningThresholdMs (lines 1455-1456)
slaGoalMs(slaHours) == slaHours * UnitsPerSlaHour
warningThresholdMs(slaHours) == (slaGoalMs(slaHours) * 8) \div 10

\* an issue of the reply: its key, the ongoing cycle of customfield_10111
\* ("none", "paused" or "running"), the elapsed time of that cycle, and
\* whether customfield_10145 holds the value Pauset
SlaIssue(key, ongoing, elapsed, manualPause) ==
  [key |-> key, ongoing |-> ongoing, elapsed |-> elapsed,
   manualPause |-> manualPause]

\* what an issue may carry apart from its key: no cycle; a paused cycle; a
\* running cycle on a manually paused issue; a running cycle with no time
\* elapsed, at the warning threshold, just below the goal, at the goal and
\* beyond it
SlaShapes(slaHours) ==
  {[ongoing |-> "none", elapsed |-> 0, manualPause |-> FALSE],
   [ongoing |-> "paused", elapsed |-> slaGoalMs(slaHours), manualPause |-> FALSE],
   [ongoing |-> "running", elapsed |-> slaGoalMs(slaHours) + 1, manualPause |-> TRUE]}
  \cup {[ongoing |-> "running", elapsed |-> e, manualPause |-> FALSE] :
          e \in {0, warningThresholdMs(slaHours), slaGoalMs(slaHours) - 1,
                 slaGoalMs(slaHours), slaGoalMs(slaHours) + 1}}

\* the replies of up to MaxSlaIssues issues, keyed by their position
SlaReplies(slaHours) ==
  {[i \in DOMAIN shapes |->
      SlaIssue(i, shapes[i].ongoing, shapes[i].elapsed, shapes[i].manualPause)] :
     shapes \in SeqsUpTo(SlaShapes(slaHours), MaxSlaIssues)}

\* the test of line 1465 without the manual pause field
IsPausedByCycleOnly(issue) == issue.ongoing = "paused"

\* the test of line 1465
IsPaused(issue) == issue.ongoing = "paused" \/ issue.manualPause

\* the comparator of lines 1495-1499
Compare(a, b) ==
  IF a.status = "breached" /\ b.status = "warning" THEN -1
  ELSE IF a.status = "warning" /\ b.status = "breached" THEN 1
  ELSE a.timeRemainingMs - b.timeRemainingMs

\* criticalIssues.sort(...): the sort is stable, an entry goes behind the
\* entries of the sorted part that do not come after it
RECURSIVE InsertBy(_, _)
InsertBy(sorted, entry) ==
  IF sorted = <<>> THEN <<entry>>
  ELSE IF Compare(Head(sorted), entry) <= 0
       THEN <<Head(sorted)>> \o InsertBy(Tail(sorted), entry)
       ELSE <<entry>> \o sorted

RECURSIVE SortBy(_)
SortBy(entries) ==
  IF entries = <<>> THEN <<>>
  ELSE InsertBy(SortBy(SubSeq(entries, 1, Len(entries) - 1)),
                entries[Len(entries)])

\* the loop of lines 1458-1492 from issue i on, with the counters and the
\* list so far
RECURSIVE SlaLoop(_, _, _, _)
SlaLoop(issues, i, slaHours, acc) ==
  IF i > Len(issues) THEN acc
  ELSE LET issue == issues[i]
           elapsedMs == issue.elapsed
           entry(status) == [key |-> issue.key, status |-> status,
                             timeRemainingMs |-> slaGoalMs(slaHours) - elapsedMs]
       IN IF IsPaused(issue) \/ issue.ongoing = "none"
          THEN SlaLoop(issues, i + 1, slaHours, acc)
          ELSE IF elapsedMs >= slaGoalMs(slaHours)
          THEN SlaLoop(issues, i + 1, slaHours,
                       [acc EXCEPT !.count = @ + 1, !.breached = @ + 1,
                                   !.criticalIssues = Append(@, entry("breached"))])
          ELSE IF elapsedMs >= warningThresholdMs(slaHours)
          THEN SlaLoop(issues, i + 1, slaHours,
                       [acc EXCEPT !.count = @ + 1, !.warning = @ + 1,
                                   !.criticalIssues = Append(@, entry("warning"))])
          ELSE SlaLoop(issues, i + 1, slaHours, [acc EXCEPT !.count = @ + 1])

\* lines 1441-1514
SlaStatus(issues, slaHours) ==
  IF Len(issues) = 0
  THEN [status |-> "green", count |-> 0, breached |-> 0, warning |-> 0,
        criticalIssues |-> <<>>]
  ELSE LET acc == SlaLoop(issues, 1, slaHours,
                          [count |-> 0, breached |-> 0, warning |-> 0,
                           criticalIssues |-> <<>>])
       IN [status |-> IF acc.breached > 0 THEN "red"
                      ELSE IF acc.warning > 0 THEN "yellow" ELSE "green",
           count |-> acc.count,
           breached |-> acc.breached,
           warning |-> acc.warning,
           criticalIssues |-> SortBy(acc.criticalIssues)]

\* the object of the catch (lines 1516-1519)
SlaUnknown ==
  [status |-> "unknown", count |-> 0, breached |-> 0, warning |-> 0,
   criticalIssues |-> <<>>]

SlaIdle ==
  /\ sHours = 0
  /\ sIssues = <<>>
  /\ sPc = "idle"
  /\ sResult = Null

\* the call is made and the request sent (lines 1429-1440); sIssues is what
\* the tracker has for the query
SlaInit ==
  /\ sHours \in SlaHours
  /\ sIssues \in SlaReplies(sHours)
  /\ sPc = "called"
  /\ sResult = Null

\* the reply (lines 1442-1519): a body without issues counts as an empty
\* list (line 1442), a rejected request is caught
SlaStatusReply ==
  /\ sPc = "called"
  /\ \E o \in Outcomes :
       /\ sIssues' = IF o = "ok" THEN sIssues ELSE <<>>
       /\ sResult' = IF o \in {"ok", "bad_body"}
                     THEN SlaStatus(sIssues', sHours)
                     ELSE SlaUnknown
  /\ sPc' = "returned"
  /\ UNCHANGED sHours
  /\ UNCHANGED notSla

Init == SvcInit /\ CountIdle /\ OpenIdle /\ TrendIdle /\ BHIdle /\ AnalyzeIdle
  /\ MetricsIdle /\ AssembleIdle
  /\ PipeIdle
  /\ SlaIdle

Next ==
  \/ \E r \in Requests : getSupportIssues(r)
  \/ \E r \in Requests, t \in Tenants : UpstreamReply(r, t)
  \/ \E r \in Requests, t \in Tenants : TrendReply(r, t)
  \/ Midnight

Spec == Init /\ [][Next]_vars

InitCount == CountInit /\ SvcIdle /\ OpenIdle /\ TrendIdle /\ BHIdle /\ AnalyzeIdle
  /\ MetricsIdle /\ AssembleIdle
  /\ PipeIdle
  /\ SlaIdle

NextCount ==
  \/ CountFirstReply
  \/ CountPageReply

SpecCount == InitCount /\ [][NextCount]_vars

InitOpen == OpenInit /\ SvcIdle /\ CountIdle /\ TrendIdle /\ BHIdle /\ AnalyzeIdle
  /\ MetricsIdle /\ AssembleIdle
  /\ PipeIdle
  /\ SlaIdle

NextOpen ==
  \/ OpenCountReply
  \/ OpenBatchReply
  \/ OpenPageReply

SpecOpen == InitOpen /\ [][NextOpen]_vars

InitTrend == TrendInit /\ SvcIdle /\ CountIdle /\ OpenIdle /\ BHIdle /\ AnalyzeIdle
  /\ MetricsIdle /\ AssembleIdle
  /\ PipeIdle
  /\ SlaIdle

NextTrend ==
  \/ TrendDay
  \/ TrendWeek
  \/ TrendOpen

SpecTrend == InitTrend /\ [][NextTrend]_vars

InitBH == BHInit /\ SvcIdle /\ CountIdle /\ OpenIdle /\ TrendIdle /\ AnalyzeIdle
  /\ MetricsIdle /\ AssembleIdle
  /\ PipeIdle
  /\ SlaIdle

NextBH ==
  \/ BusinessHoursReturn

SpecBH == InitBH /\ [][NextBH]_vars

InitAnalyze ==
  /\ AnalyzeInit /\ SvcIdle /\ CountIdle /\ OpenIdle /\ TrendIdle
  /\ BHIdle /\ MetricsIdle /\ AssembleIdle
  /\ PipeIdle
  /\ SlaIdle

NextAnalyze ==
  \/ TtfrReturn
  \/ SlaReturn
  \/ LifetimeReturn

SpecAnalyze == InitAnalyze /\ [][NextAnalyze]_vars

InitMetrics ==
  /\ MetricsInit /\ SvcIdle /\ CountIdle /\ OpenIdle /\ TrendIdle
  /\ BHIdle /\ AnalyzeIdle /\ AssembleIdle
  /\ PipeIdle
  /\ SlaIdle

NextMetrics ==
  \/ MetricsReturn

SpecMetrics == InitMetrics /\ [][NextMetrics]_vars

InitAssemble ==
  /\ AssembleInit /\ SvcIdle /\ CountIdle /\ OpenIdle /\ TrendIdle
  /\ BHIdle /\ AnalyzeIdle /\ MetricsIdle
  /\ PipeIdle
  /\ SlaIdle

NextAssemble ==
  \/ AssembleReturn

SpecAssemble == InitAssemble /\ [][NextAssemble]_vars

InitPipe ==
  /\ PipeInit /\ SvcIdle /\ CountIdle /\ OpenIdle /\ TrendIdle
  /\ BHIdle /\ AnalyzeIdle /\ MetricsIdle /\ AssembleIdle
  /\ SlaIdle

NextPipe ==
  \/ CountReply
  \/ BatchReply
  \/ PipeOpenPageReply
  \/ ClosedReply
  \/ CreatedReply
  \/ ResolvedReply
  \/ TrendCountReply

SpecPipe == InitPipe /\ [][NextPipe]_vars

\* every call is answered or times out (lines 411, 425, 696, 844), and the
\* tracker does not hand out continuation tokens for ever
SpecPipeFair ==
  /\ InitPipe /\ [][NextPipe]_vars
  /\ WF_vars(NextPipe)
  /\ SF_vars(LastPageOrFailure)

InitSla ==
  /\ SlaInit /\ SvcIdle /\ CountIdle /\ OpenIdle /\ TrendIdle
  /\ BHIdle /\ AnalyzeIdle /\ MetricsIdle /\ AssembleIdle /\ PipeIdle

NextSla ==
  \/ SlaStatusReply

SpecSla == InitSla /\ [][NextSla]_vars

(***************************************************************************)
(* Claims about the service (checked under Spec)                           *)
(***************************************************************************)
RequiredFields ==
  {"openIssues", "newToday", "closedToday", "criticalP1", "topIssues", "trendData"}

WellFormed(v) ==
  /\ RequiredFields \subseteq DOMAIN v
  /\ {"weeks", "currentWeek"} \subseteq DOMAIN v.trendData

SomeReturned == \E r \in Requests : reqpc[r] = "returned"

\* C1: whatever the upstream outcomes of the two tenants (success, timeout,
\* non-success response, missing credentials), a getSupportIssues request
\* whose two pipelines have settled has returned, and the object it
\* returned has a hallmonitor and a switchpay entry, each with openIssues,
\* newToday, closedToday, criticalP1, topIssues and a trendData holding
\* weeks and currentWeek.
C1_StructurallyValid ==
  /\ \A r \in Requests : reqpc[r] = "running" =>
        \E t \in Tenants : pc[r][t] \in {"upstream", "trend"}
  /\ SomeReturned =>
        /\ DOMAIN lastResp = {"hallmonitor", "switchpay"}
        /\ WellFormed(lastResp.hallmonitor)
        /\ WellFormed(lastResp.switchpay)

\* C1 witness: with credentials for both tenants, a request has returned
\* mock data for HallMonitor (its upstream failed) beside live data for
\* SwitchPay.
C1_Witness ==
  /\ SomeReturned
  /\ \A t \in Tenants : creds[t]
  /\ lastResp.hallmonitor.mock
  /\ ~lastResp.switchpay.mock

\* the step in which getProductSupportData(t) of request r enters
\* getCachedTrendData
CallsCached(r, t) == pc[r][t] = "upstream" /\ getCachedTrendData(r, t)

\* the step in which it invokes get8WeeksTrendData
InvokesTrend(r, t) == CallsCached(r, t) /\ pc'[r][t] = "trend"

\* the value getProductSupportData(t) of request r has resolved with after
\* the step carries trend series `series`
ResolvesWithTrend(r, t, series) ==
  IF reqpc'[r] = "returned"
  THEN (IF t = "HallMonitor" THEN lastResp'.hallmonitor
                             ELSE lastResp'.switchpay).trendData = series
  ELSE pc'[r][t] = "done" /\ res'[r][t].trendData = series

\* C5 (as claimed): once a call for tenant t has stored its series on
\* date D, a later call for t that observes date D issues no upstream
\* query and returns the stored object.  Stated for the series that is
\* stored now: the call observes the date on which it was fetched.
C5_SameDateServedFromCache ==
  [][\A r \in Requests, t \in Tenants :
       (CallsCached(r, t) /\ trendCache.data[t] # NoSeries /\ fetchedOn[t] = today)
         => /\ ~InvokesTrend(r, t)
            /\ ResolvesWithTrend(r, t, trendCache.data[t])]_vars

\* C6 (as claimed): the first call for tenant t that observes another date
\* than the one on which the stored series of t was fetched invokes
\* get8WeeksTrendData, whatever was called for the other tenant.
C6_FirstStaleCallRefetches ==
  [][\A r \in Requests, t \in Tenants :
       (CallsCached(r, t) /\ Stale(t) /\ ~staleSeen[t])
         => InvokesTrend(r, t)]_vars

\* C7 (as claimed): get8WeeksTrendData is invoked at most once per tenant
\* per calendar date, also when requests overlap.
C7_OneFetchPerTenantPerDate ==
  [][\A r \in Requests, t \in Tenants :
       InvokesTrend(r, t) => today \notin invokedOn[t]]_vars

\* the step in which get8WeeksTrendData returns to getCachedTrendData of
\* request r for tenant t
TrendReturns(r, t) == pc[r][t] = "trend" /\ TrendReply(r, t)

\* C27 (as claimed): getCachedTrendData stores whatever series
\* get8WeeksTrendData returns, also one built while upstream calls were
\* failing; once stored, the series is returned unchanged to every later
\* call for the tenant on the same calendar date, with no new fetch.
C27_StoredSeriesServedAllDay ==
  [][\A r \in Requests, t \in Tenants :
       /\ TrendReturns(r, t) => ResolvesWithTrend(r, t, trendCache'.data[t])
       /\ (CallsCached(r, t) /\ trendCache.data[t] # NoSeries
             /\ fetchedOn[t] = today)
            => (ResolvesWithTrend(r, t, trendCache.data[t])
                /\ trendCache'.data[t] = trendCache.data[t]
                /\ invokedOn'[t] = invokedOn[t])]_vars

\* the step in which an upstream call of getProductSupportData(t) of
\* request r fails and the catch of lines 574-577 runs
FailsUpstream(r, t) == pc[r][t] = "upstream" /\ Catch(r, t)

\* C13 (as claimed): when an upstream fetch of tenant t fails during a
\* request and a trend series of t is stored in the cache, the trendData
\* returned for t is the stored series; the synthetic series is returned
\* only when the cache has no entry for t.
C13_FailureServesStoredSeries ==
  [][\A r \in Requests, t \in Tenants :
       FailsUpstream(r, t) =>
         ResolvesWithTrend(r, t, IF trendCache.data[t] # NoSeries
                                 THEN trendCache.data[t]
                                 ELSE getMock8WeeksTrendData)]_vars

\* the object the last returned request carries for tenant t
Returned(t) ==
  IF t = "HallMonitor" THEN lastResp.hallmonitor ELSE lastResp.switchpay

\* C14: for a tenant whose configuration lacks the endpoint, the e-mail or
\* the API token, getProductSupportData returns the tenant's mock data; no
\* upstream call is made for it and the trend cache is neither read nor
\* written for it, while the other tenant is processed as usual.
C14_MissingCredentialsShortCircuit ==
  \A t \in Tenants : ~creds[t] =>
    /\ \A r \in Requests : pc[r][t] \notin {"upstream", "trend"}
    /\ \A r \in Requests :
         reqpc[r] = "running" => res[r][t] = getSingleProductMockData(t)
    /\ SomeReturned => Returned(t) = getSingleProductMockData(t)
    /\ trendCache.data[t] = NoSeries
    /\ invokedOn[t] = {} /\ fetchedOn[t] = NoDate /\ ~staleSeen[t]
    /\ \A u \in Tenants \ {t}, r \in Requests :
         (creds[u] /\ reqpc[r] = "running") =>
            pc[r][u] \in {"upstream", "trend", "done"}

\* HallMonitor has no credentials: a request has returned its mock data
\* beside SwitchPay's data built from upstream, whose series is stored
C14_Witness ==
  /\ ~creds["HallMonitor"] /\ creds["SwitchPay"]
  /\ SomeReturned
  /\ lastResp.hallmonitor = getSingleProductMockData("HallMonitor")
  /\ ~lastResp.switchpay.mock
  /\ trendCache.data["SwitchPay"] # NoSeries

CachedTrendStep(r, t) ==
  \/ CallsCached(r, t)
  \/ pc[r][t] = "trend" /\ TrendReply(r, t)

\* C16 (as claimed): a getCachedTrendData call for tenant t changes neither
\* the stored series of the other tenant u nor the stored calendar date
\* that decides whether u's entry is fresh.
C16_OtherTenantCacheUntouched ==
  [][\A r \in Requests, t \in Tenants, u \in Tenants :
       (u # t /\ CachedTrendStep(r, t)) =>
         /\ trendCache'.data[u] = trendCache.data[u]
         /\ trendCache.data[u] # NoSeries =>
              trendCache'.lastUpdated = trendCache.lastUpdated]_vars

(***************************************************************************)
(* Claims about getCountWithPagination (checked under SpecCount)           *)
(***************************************************************************)
\* the distinct non-empty keys on the pages up to and including the first
\* one without a continuation token
DistinctKeys(pages) == UNION {{k \in Range(pages[i]) : k # 0} : i \in DOMAIN pages}

\* C2: when every page fetch succeeded, getCountWithPagination returns the
\* number of distinct non-empty keys on the pages received up to and
\* including the first one without a continuation token, however the keys
\* are split into pages or repeated across them: 242 for 100/100/42
\* disjoint keys, 190 for 100/100 with 10 repeated.
C2_CountIsDistinctKeys ==
  (cPc = "done" /\ ~cFailed) =>
     /\ cResult = Cardinality(DistinctKeys(cPages))
     /\ cPages = Pages242 => cResult = 242
     /\ cPages = Pages190 => cResult = 190

\* C2 witness: the call has returned 190 for the two overlapping pages.
C2_Witness ==
  cPc = "done" /\ ~cFailed /\ cPages = Pages190 /\ cResult = 190

\* a second case: two pages that share a key and hold an issue without key.
C2_WitnessRepeats ==
  /\ cPc = "done" /\ ~cFailed /\ Len(cPages) = 2
  /\ Range(cPages[1]) \cap Range(cPages[2]) # {}
  /\ 0 \in Range(cPages[2])
  /\ cResult = 2

(***************************************************************************)
(* Claims about the open count (checked under SpecOpen)                    *)
(***************************************************************************)
\* C3 (as claimed): in a response built from upstream data, the open count
\* is the number of distinct issues matching the open filter, for every
\* total, also beyond one page: no matching issue is missing from the key
\* set made of the display batch and the pages fetched with the token of
\* the one-result count query.
C3_OpenCountExact ==
  (oPc = "done" /\ ~oMock) => oTotal = oN

(***************************************************************************)
(* Claims about the trend series (checked under SpecTrend)                 *)
(***************************************************************************)
\* the series in chronological order: the weekly points, then the daily
TrendSeries == tWeeks \o tCurrentWeek

Balanced(older, newer) == older.open = newer.open - newer.created + newer.resolved

\* C4 (as claimed): in the returned series every adjacent pair of an older
\* and the next newer point satisfies open[i] = open[i+1] - created[i+1] +
\* resolved[i+1], pairs of weekly points and the pair of the last weekly
\* and the first daily point included.
C4_RunningBalance ==
  tPc = "done" =>
    \A i \in 1..(Len(TrendSeries) - 1) :
       Balanced(TrendSeries[i], TrendSeries[i + 1])

\* the value get8WeeksTrendData returns (line 968)
TrendResult == [weeks |-> tWeeks, currentWeek |-> tCurrentWeek]

\* the series has the shape of getMock8WeeksTrendData (lines 995-1022):
\* eight weekly points without weekStart, five daily points without date
IsMockSeries(series) ==
  /\ Len(series.weeks) = 8
  /\ Len(series.currentWeek) = 5
  /\ \A i \in DOMAIN series.weeks : "weekStart" \notin DOMAIN series.weeks[i]
  /\ \A i \in DOMAIN series.currentWeek :
       "date" \notin DOMAIN series.currentWeek[i]

\* C12 (as claimed): when an upstream call made while the series is built
\* has failed, get8WeeksTrendData returns the synthetic mock series, not a
\* series with the values of the calls that succeeded.
C12_FailureGivesMockSeries ==
  (tPc = "done" /\ tFailed) => IsMockSeries(TrendResult)

\* days from the Monday of the current week to today, Monday itself 0
DaysSinceMonday == (tDow + 6) % 7

\* C18 (as claimed): the series returned holds exactly 8 weekly points in
\* chronological order, their week starts 7 days apart and the last one 7
\* days before the Monday of the current week, and one daily point for
\* each day from that Monday through today in increasing order: between 1
\* and 7 daily points, none for a day after today.  Days are numbered from
\* the Monday of the current week.
C18_BucketsCoverWindow ==
  tPc = "done" =>
    /\ Len(tWeeks) = 8
    /\ \A i \in 1..8 : tWeeks[i].weekStart = -7 * (9 - i)
    /\ Len(tCurrentWeek) = DaysSinceMonday + 1
    /\ Len(tCurrentWeek) \in 1..7
    /\ \A i \in DOMAIN tCurrentWeek :
         tCurrentWeek[i].date = i - 1 /\ tCurrentWeek[i].date <= DaysSinceMonday

\* C20: in one build of the series the live open count is called for
\* exactly once, after all created and resolved counts have been obtained,
\* and the open value of the most recent daily point is the count that
\* call returned.
C20_LiveOpenCountOnceAtEnd ==
  /\ tOpenCalls \in 0..1
  /\ tOpenCalls = 1 <=> tPc \in {"open", "done"}
  /\ tPc \in {"open", "done"} =>
       /\ Len(tWeeks) = 8
       /\ Len(tCurrentWeek) = DaysSinceMonday + 1
  /\ tPc = "done" => tCurrentWeek[Len(tCurrentWeek)].open = tLive

\* on a Wednesday the build has ended with a live open count of 2, which
\* the third and last daily point carries
C20_Witness ==
  /\ tPc = "done"
  /\ tDow = 3
  /\ tOpenCalls = 1
  /\ tLive = 2
  /\ Len(tCurrentWeek) = 3
  /\ tCurrentWeek[3].open = 2

(***************************************************************************)
(* Claims about calculateBusinessHours (checked under SpecBH)              *)
(***************************************************************************)
DayOf(date) == date \div UnitsPerDay

\* days are numbered from a Monday: 5 and 6 of every seven are the weekend
OnSaturday(date) == DayOf(date) % 7 = 5
OnSunday(date) == DayOf(date) % 7 = 6

Max2(a, b) == IF a > b THEN a ELSE b

\* the length of the intersection of [start, end] with the window of `day`
WindowPart(start, end, day) ==
  IF day % 7 \in 0..4
  THEN Max2(0, Min(end, At(day, WORK_END_HOUR, 0))
                - Max2(start, At(day, WORK_START_HOUR, 0)))
  ELSE 0

RECURSIVE WindowSum(_, _, _)
WindowSum(start, end, day) ==
  IF day < 0 THEN 0
  ELSE WindowPart(start, end, day) + WindowSum(start, end, day - 1)

\* C8: calculateBusinessHours(start, end) is 0 when start and end lie
\* within the same Saturday or the same Sunday, and for a fixed start it
\* does not decrease when end increases.
C8_WeekendZeroAndMonotone ==
  bhPc = "returned" =>
    /\ (  /\ DayOf(bhStart) = DayOf(bhEnd)
          /\ OnSaturday(bhStart) \/ OnSunday(bhStart) ) => bhResult = 0
    /\ \A end2 \in Instants :
         bhEnd <= end2 => bhResult <= calculateBusinessHours(bhStart, end2)

\* Saturday 09:00 to the same Saturday 15:00 has returned 0
C8_Witness ==
  /\ bhPc = "returned"
  /\ bhStart = At(5, WORK_START_HOUR, 0)
  /\ bhEnd = At(5, WORK_END_HOUR, 0)
  /\ bhResult = 0

\* C9: for start <= end the result is the total length of the
\* intersection of [start, end] with the 09:00-15:00 windows of the Monday
\* to Friday days it spans; it is 0 when end <= start; Friday 14:30 to the
\* following Monday 10:00 gives 90 minutes.
C9_WindowIntersection ==
  bhPc = "returned" =>
    /\ bhStart <= bhEnd => bhResult = WindowSum(bhStart, bhEnd, DayOf(bhEnd))
    /\ bhEnd <= bhStart => bhResult = 0
    /\ (  /\ bhStart = At(4, WORK_END_HOUR, -1)
          /\ bhEnd = At(7, WORK_START_HOUR + 1, 0) )
         => bhResult * MinutesPerUnit = 90

\* Friday 14:30 to the following Monday 10:00 has returned 90 minutes
C9_Witness ==
  /\ bhPc = "returned"
  /\ bhStart = At(4, WORK_END_HOUR, -1)
  /\ bhEnd = At(7, WORK_START_HOUR + 1, 0)
  /\ bhResult * MinutesPerUnit = 90

(***************************************************************************)
(* Claims about the analyzers (checked under SpecAnalyze)                  *)
(***************************************************************************)
\* the issue gives a sample to the analyzer: a non-zero elapsed time of a
\* completed response cycle; a completed resolution cycle on a key from
\* FirstSlaKey on; both timestamps with business time between them
Contributes(which, issue) ==
  CASE which = "ttfr" -> issue.ttfr # NoValue /\ issue.ttfr # 0
    [] which = "sla" -> issue.key >= FirstSlaKey /\ issue.cycle # "none"
    [] which = "lifetime" ->
         /\ issue.created # NoValue
         /\ issue.resolutiondate # NoValue
         /\ WindowSum(issue.created, issue.resolutiondate,
                      DayOf(issue.resolutiondate)) > 0

\* C10: each of the three analyzers returns null (not 0, not NaN) for an
\* empty list of resolved issues, and for a non-empty list of which no
\* issue contributes a sample.
C10_NullWithoutSamples ==
  aPc = "returned" =>
    ( (\A i \in DOMAIN aIssues : ~Contributes(aWhich, aIssues[i]))
        => aResult = Null )

\* calculateAverageLifetime has returned null for a non-empty list whose
\* issues have both timestamps, all within a weekend
C10_Witness ==
  /\ aPc = "returned"
  /\ aWhich = "lifetime"
  /\ aIssues # <<>>
  /\ \A i \in DOMAIN aIssues :
       aIssues[i].created # NoValue /\ aIssues[i].resolutiondate # NoValue
  /\ aResult = Null

\* each analyzer has returned null for the empty list
C10_WitnessEmpty ==
  /\ aPc = "returned"
  /\ aIssues = <<>>
  /\ aResult = Null

Qualifies(issue) == issue.key >= FirstSlaKey /\ issue.cycle # "none"
NotBreached(issue) == Qualifies(issue) /\ issue.cycle # "breached"

\* the list without the issues of a key number below FirstSlaKey
RECURSIVE FromFirstSlaKey(_)
FromFirstSlaKey(issues) ==
  IF issues = <<>> THEN <<>>
  ELSE (IF Head(issues).key >= FirstSlaKey THEN <<Head(issues)>> ELSE <<>>)
       \o FromFirstSlaKey(Tail(issues))

\* C11 (as claimed): calculateSlaCompliance returns
\* round(100 * notBreached / total) over the issues with a key number from
\* 1610 on and a completed resolution cycle, an integer between 0 and 100
\* (9 of 10 not breached gives 90); issues with a smaller key number never
\* change the result.
C11_SlaPercentage ==
  (aPc = "returned" /\ aWhich = "sla") =>
    LET total == Cardinality({i \in DOMAIN aIssues : Qualifies(aIssues[i])})
        notBreached == Cardinality({i \in DOMAIN aIssues : NotBreached(aIssues[i])})
    IN /\ total > 0 =>
            /\ aResult = [number |-> MathRound(100 * notBreached, total)]
            /\ aResult.number \in 0..100
       /\ aIssues = TenIssuesOneBreached => aResult = [number |-> 90]
       /\ aResult = calculateSlaCompliance(FromFirstSlaKey(aIssues))

\* the issue gives a sample to the recent partition: it was resolved at or
\* after the instant fifteen days before the call
RecentSample(which, issue) ==
  /\ Contributes(which, issue)
  /\ issue.resolutiondate # NoValue
  /\ issue.resolutiondate >= fifteenDaysAgo

PreviousSample(which, issue) ==
  Contributes(which, issue) /\ ~RecentSample(which, issue)

HasRecent == \E i \in DOMAIN aIssues : RecentSample(aWhich, aIssues[i])
HasPrevious == \E i \in DOMAIN aIssues : PreviousSample(aWhich, aIssues[i])

\* C22: calculateTimeToFirstResponse and calculateAverageLifetime report a
\* changePercent that is not null exactly when the recent and the previous
\* partition both hold a sample; with exactly one partition empty the
\* result still has a value and its changePercent is null.
C22_ChangeNeedsBothPartitions ==
  (aPc = "returned" /\ aWhich \in {"ttfr", "lifetime"}) =>
    /\ (HasRecent \/ HasPrevious) => (aResult # Null /\ aResult.value # <<>>)
    /\ aResult # Null =>
         (aResult.changePercent # Null <=> (HasRecent /\ HasPrevious))

\* an analyzer has returned a value and a null changePercent for samples of
\* the recent partition alone
C22_Witness ==
  /\ aPc = "returned"
  /\ aWhich \in {"ttfr", "lifetime"}
  /\ HasRecent /\ ~HasPrevious
  /\ aResult # Null
  /\ aResult.changePercent = Null

\* the elapsed times the issues carry, in the order of the issues
RECURSIVE ElapsedValues(_)
ElapsedValues(issues) ==
  IF issues = <<>> THEN <<>>
  ELSE (IF Head(issues).ttfr # NoValue THEN <<Head(issues).ttfr>> ELSE <<>>)
       \o ElapsedValues(Tail(issues))

\* the k-th smallest of the values
KthSmallest(values, k) ==
  CHOOSE v \in Range(values) :
    /\ Cardinality({i \in DOMAIN values : values[i] < v}) < k
    /\ Cardinality({i \in DOMAIN values : values[i] <= v}) >= k

\* the middle value, or the mean of the two middle values
MiddleValue(values) ==
  IF Len(values) % 2 = 1
  THEN [num |-> KthSmallest(values, (Len(values) + 1) \div 2), den |-> 1]
  ELSE [num |-> KthSmallest(values, Len(values) \div 2)
                + KthSmallest(values, Len(values) \div 2 + 1),
        den |-> 2]

\* the list without the issues that carry no elapsed time
RECURSIVE WithElapsed(_)
WithElapsed(issues) ==
  IF issues = <<>> THEN <<>>
  ELSE (IF Head(issues).ttfr # NoValue THEN <<Head(issues)>> ELSE <<>>)
       \o WithElapsed(Tail(issues))

\* C23 (as claimed): calculateTimeToFirstResponse reports the median of the
\* completed-cycle elapsed times of all issues that carry one, recent and
\* previous together; an issue without one is skipped and does not change
\* what the other issues contribute.
C23_MedianOfAllElapsed ==
  (aPc = "returned" /\ aWhich = "ttfr") =>
    LET values == ElapsedValues(aIssues)
    IN /\ values # <<>> =>
            /\ aResult # Null
            /\ aResult.value = formatDuration(MiddleValue(values).num,
                                              MiddleValue(values).den)
       /\ aResult = calculateTimeToFirstResponse(WithElapsed(aIssues))

\* the business time between created and resolved, summed over the issues
\* that have both timestamps
RECURSIVE BusinessTimeSum(_)
BusinessTimeSum(issues) ==
  IF issues = <<>> THEN 0
  ELSE (IF Head(issues).created # NoValue /\ Head(issues).resolutiondate # NoValue
        THEN WindowSum(Head(issues).created, Head(issues).resolutiondate,
                       DayOf(Head(issues).resolutiondate))
        ELSE 0)
       + BusinessTimeSum(Tail(issues))

\* C24 (as claimed): calculateAverageLifetime reports the mean of the
\* business time between created and resolved over all issues that have both
\* timestamps, one sample for each of them; only issues missing a timestamp
\* are left out.
C24_MeanOverAllTimestamped ==
  (aPc = "returned" /\ aWhich = "lifetime") =>
    LET both == {i \in DOMAIN aIssues :
                   aIssues[i].created # NoValue
                   /\ aIssues[i].resolutiondate # NoValue}
    IN both # {} =>
         /\ aResult # Null
         /\ aResult.value = formatDuration(BusinessTimeSum(aIssues),
                                           Cardinality(both))

(***************************************************************************)
(* Claims about calculateMetrics (checked under SpecMetrics)               *)
(***************************************************************************)
\* the positions of the batch that hold an issue that is not closed
OpenPositions == {i \in DOMAIN mIssues : mIssues[i].status # "Closed"}

\* the j-th of them in the order of the batch
OpenPosition(j) ==
  CHOOSE i \in OpenPositions :
    Cardinality({k \in OpenPositions : k < i}) = j - 1

\* C17: topIssues are the first 4 issues of the batch whose status is not
\* Closed, in the order of the batch; there are fewer than 4 only when the
\* batch holds fewer than 4 such issues.
C17_TopIssuesFirstFourOpen ==
  mPc = "returned" =>
    /\ Len(mResult.topIssues) = Min(4, Cardinality(OpenPositions))
    /\ \A j \in DOMAIN mResult.topIssues :
         /\ mResult.topIssues[j].key = mIssues[OpenPosition(j)].key
         /\ mResult.topIssues[j].status = mIssues[OpenPosition(j)].status

\* a batch of five with a closed issue in second place and four others:
\* the fifth issue is the last of the four returned
C17_Witness ==
  /\ mPc = "returned"
  /\ Len(mIssues) = 5
  /\ mIssues[2].status = "Closed"
  /\ Cardinality(OpenPositions) = 4
  /\ Len(mResult.topIssues) = 4
  /\ mResult.topIssues[4].key = mIssues[5].key

C19_SlaAndLifetimeByProduct ==
  gPc = "returned" =>
    /\ gProduct = "HallMonitor" =>
         /\ gResult.averageLifetime = Null
         /\ gResult.averageLifetimeChange = Null
         /\ gResult.slaCompliance = calculateSlaCompliance(gIssues)
    /\ gProduct = "SwitchPay" =>
         /\ gResult.slaCompliance = Null
         /\ gResult.averageLifetime # Null
         /\ DOMAIN gResult.averageLifetime = {"text"}
         /\ IF calculateAverageLifetime(gIssues) = Null
            THEN gResult.averageLifetime = Dash
            ELSE gResult.averageLifetime.text =
                   calculateAverageLifetime(gIssues).value

\* SwitchPay's result carries a formatted mean lifetime and no SLA value
C19_Witness ==
  /\ gPc = "returned"
  /\ gProduct = "SwitchPay"
  /\ gResult.slaCompliance = Null
  /\ gResult.averageLifetime # Null
  /\ gResult.averageLifetime # Dash

(***************************************************************************)
(* Claims about the upstream calls of getProductSupportData (checked under *)
(* SpecPipe and SpecPipeFair)                                              *)
(***************************************************************************)
\* a call of the closed-today count has failed
ClosedCountFailed == \E k \in Tokens : <<ClosedTodayFilter, k>> \in pFailed

\* the object holds what was computed from upstream replies, not the
\* replacement values of getSingleProductMockData
FromUpstream(value) == ~value.mock

\* C21 (as claimed): a fetch that fails while closedToday is counted aborts
\* only that count: the other metrics of the tenant's response (openIssues,
\* newToday, topIssues, the trend) are the values computed from upstream.
C21_FailedCountLeavesOtherMetrics ==
  (pPc = "returned" /\ ClosedCountFailed) =>
    /\ FromUpstream(pResult)
    /\ FromUpstream(pResult.trendData)

\* the step sends a call
Sends == pTick' # pTick

\* C25: no upstream call is retried: once a call has failed, the same query
\* (same filter, same continuation token) is not sent again during the
\* request.
C25_NoRetry == [][Sends => pLast' \notin pFailed']_vars

\* a call is in flight after an earlier call of the request has failed
C25_Witness == pPc = "trend" /\ pFailed # {}

\* the position at which the first call of a step is awaited
FirstPosition(step) ==
  CASE step = "open" -> "count"
    [] step = "batch" -> "batch"
    [] step = "today" -> "closed"
    [] step = "resolved" -> "resolved"
    [] step = "trend" -> "trend"

\* the first call of the step is sent
SendsFirstCall(step) == Sends /\ pPc' = FirstPosition(step) /\ pPc' # pPc

\* C26 (as claimed): the five steps of a tenant's request are issued in
\* parallel: no step waits for another step to complete before it sends its
\* first upstream call.
C26_StepsIssuedInParallel ==
  [][\A step \in Steps : SendsFirstCall(step) => pDone' \ {step} = {}]_vars

\* the positions at which a call of a pagination loop is awaited
LoopPositions == {"open", "closed", "created", "resolved", "trend"}

\* C28: with every call answered, and the tracker sooner or later failing a
\* call or serving a page without a continuation token, every pagination
\* loop stops and the request returns; the loops themselves have no page
\* limit and no check for a repeated token: whatever was sent before, a
\* page that comes with a token makes the loop send that token.
C28_LoopsStopWhenTokensEnd ==
  /\ <>(pPc = "returned")
  /\ [](pPc \in LoopPositions =>
          \A k \in Tokens \ {0} :
            ENABLED (NextPipe /\ Sends /\ pPc' = pPc /\ pLast' = <<pLast[1], k>>))

\* the request has returned the assembled result after a loop asked for a
\* further page
C28_Witness == pPc = "returned" /\ pPaged /\ pFailed = {} /\ "trend" \in pDone

(***************************************************************************)
(* Claims about getSlaStatusForType (checked under SpecSla)                *)
(***************************************************************************)
\* the issues of the reply that are not paused and have an ongoing cycle
ActiveKeys ==
  {sIssues[i].key : i \in {j \in DOMAIN sIssues :
     /\ sIssues[j].ongoing = "running"
     /\ ~sIssues[j].manualPause}}

\* C30: on the success path of getSlaStatusForType, status is red exactly
\* when breached > 0, yellow exactly when breached = 0 and warning > 0, and
\* green otherwise; breached + warning is the length of criticalIssues and
\* at most count; paused issues (by the cycle or by the manual pause field)
\* and issues without an ongoing cycle are counted nowhere; in
\* criticalIssues every breached entry precedes every warning entry.
C30_SlaStatusConsistent ==
  (sPc = "returned" /\ sResult.status # "unknown") =>
    LET critical == sResult.criticalIssues
    IN /\ sResult.status = "red" <=> sResult.breached > 0
       /\ sResult.status = "yellow" <=>
            (sResult.breached = 0 /\ sResult.warning > 0)
       /\ sResult.status = "green" <=>
            (sResult.breached = 0 /\ sResult.warning = 0)
       /\ sResult.breached + sResult.warning = Len(critical)
       /\ Len(critical) <= sResult.count
       /\ sResult.count = Cardinality(ActiveKeys)
       /\ \A j \in DOMAIN critical : critical[j].key \in ActiveKeys
       /\ sResult.breached =
            Cardinality({j \in DOMAIN critical : critical[j].status = "breached"})
       /\ \A j, k \in DOMAIN critical :
            (critical[j].status = "breached" /\ critical[k].status = "warning")
              => j < k

\* a reply whose first issue is at the warning threshold, whose second is
\* manually paused beyond the goal and whose third is beyond the goal: red,
\* two counted, the breached entry first
C30_Witness ==
  /\ sPc = "returned"
  /\ Len(sIssues) = 3
  /\ sIssues[2].manualPause
  /\ sResult.status = "red"
  /\ sResult.count = 2
  /\ Len(sResult.criticalIssues) = 2
  /\ sResult.criticalIssues[1].key = 3
  /\ sResult.criticalIssues[2].key = 1
  /\ sResult.criticalIssues[2].status = "warning"

====
